---- MODULE Spec2Model ----
(***************************************************************************)
(* Model of the unified-agent-sdk run supervisor.                          *)
(*                                                                         *)
(*  - Spec    : one run of UnifiedAgentSDK.run / runWithFailover, driving  *)
(*              OllamaEngine attempts through a ToolExecutor and a         *)
(*              RunController, with one forwarder task per attempt copying *)
(*              the engine's EventBus into the outer EventBus, and a user  *)
(*              calling pause / resume / stop / cancel / approveToolCall.  *)
(*  - SpecCtl : the same run, without the history of the delivered events. *)
(*  - SpecLru : one LruCache driven by set / get / has / delete / clear    *)
(*              and the passing of time.                                   *)
(*                                                                         *)
(* An action is one synchronous stretch of code between two awaits.  User  *)
(* calls interleave at every await because hooks subscribed to the outer   *)
(* bus run inside emit() and may call the control API from there.          *)
(***************************************************************************)
EXTENDS Integers, Sequences, FiniteSets, TLC

\* ---------------------------------------------------------------- bounds
MaxCandidates == 2
MaxSteps == 1
MaxCalls == 1
MaxParts == 1
MaxUserOps == 1

VARIABLES
  \* --- run supervisor (sdk.ts)
  planLen,        \* plan.candidates.length
  nameOk,         \* applyToolNamePolicy returned (did not throw)
  sdkPc,          \* position of runWithFailover
  attempt,        \* loop variable of runWithFailover, 1-based
  result,         \* run.result: [state, reason]
  outer,          \* history: events accepted by the outer EventBus, in emission order
  recording,      \* whether the history outer is kept (Spec) or not (SpecCtl)
  outerClosed,    \* outer AsyncQueue.closed
  \* --- run controller (run-controller.ts)
  aborted,        \* abortController.signal.aborted
  paused,
  stopRequested,
  pauseWaiters,   \* FIFO of blocked waitIfPaused callers
  approvals,      \* keys of the approvals map
  approvalRes,    \* settled, not yet consumed approval futures: <<call id, allowed>>
  \* --- engine of the current attempt (ollama-engine.ts)
  eng,            \* local state of the engine's task, see EngIdle
  inner,          \* attempt -> events buffered in the engine's EventBus
  innerClosed,    \* attempt -> engine bus closed
  fwd,            \* attempt -> forwarder task state
  \* --- history
  userOps,        \* number of control calls made on the AgentRun
  emittedCalls,   \* number of tool_call events emitted by engines so far
  cancelledRunning, \* history: cancel() was first called while an engine was running
  \* --- LruCache (config-store.ts)
  lruMax,         \* maxEntries
  lruTtl,         \* ttlMs, 0 when unset
  lruMap,         \* the Map, in insertion order: <<[key, value, expiresAt]>>
  lruNow,         \* Date.now()
  lruRet,         \* what the last get / has / delete returned
  lruWrites,      \* history: the keys set so far, while lruPure
  lruPure,        \* history: only set() was called, on pairwise distinct keys,
                  \* and no entry was removed for being expired
  lruGone,        \* history: keys a get() found expired, not set again since
  \* --- workspaces (journal-workspace, preview-workspace, node-fs-workspace)
  wsMode,         \* "live": a JournalWorkspace wraps the base; "preview": a PreviewWorkspace
  wsBase,         \* the base workspace: path -> bytes, or Absent
  wsOps,          \* JournalWorkspace.ops
  wsOverlay,      \* PreviewWorkspace.overlay, in insertion order
  wsRet,          \* the last call made on the wrapper and what it returned
  wsBase0,        \* history: the base when the wrapper was created or last emptied
  wsLog,          \* history: the mutating calls made on the wrapper since then
  \* --- CircuitBreaker (circuit-breaker.ts) and ModelRouter (router.ts)
  cbOpts,         \* this.opts: failureThreshold, baseCooldownMs, maxCooldownMs
  cbByKey,        \* this.byKey: ref -> entry, NoEntry for a ref of the catalog the
                  \* map has no entry for
  cbNow,          \* Date.now()
  cbStreak,       \* history: ref -> recordFailure calls since the last recordSuccess
                  \* (or since the start), and the time of the latest of them
  rtIn,           \* what plan() is given: availability, preference
  rtPlan,         \* the latest plan() call: its time and the refs it returned, and
                  \* (history) the time of the call before it when the breaker was
                  \* not written to in between
  cbChanged,      \* history: the breaker was written to since the latest plan()
  \* --- fs_apply_patch (fs-tools) and applyHunk (unified-diff.ts)
  pfFile,         \* the patched file in the workspace: its lines, or NoFile
  pfText,         \* the local text of execute, as lines
  pfInc,          \* args.incremental
  pfTotal,        \* f.hunks.length
  pfHi,           \* hunks applied so far
  pfPc,           \* "idle", "hunks", "done" (execute returned), "raised" (it threw)
  pfLast,         \* history: the latest applyHunk call, see NoCall
  \* --- tool names (tool-name-policy, sdk.ts, tool-executor.ts)
  tnPolicy,       \* opts.toolNamePolicy
  tnTransform,    \* whether opts.toolNameTransform is given
  tnTools,        \* rawTools: the original names, in order
  tnPc,           \* "init", "ready" (applyToolNamePolicy returned), "refused" (it threw)
  tnNames,        \* the provider-facing names of the tools returned
  tnMap,          \* mapping.originalByProvider, as <<provider name, original name>> entries
  tnLast,         \* the latest thing carrying a tool name that reached the SDK caller
  \* --- callers of a RunController (run-controller.ts)
  ctCall,         \* caller -> where its waitIfPaused / guardToolExecution call stands
  \* --- EventBus (event-bus) over its AsyncQueue (part_014)
  bqBuf,          \* q.buf
  bqWaiters,      \* q.waiters: the consumers whose next() is pending, oldest first
  bqClosed,       \* q.closed
  bqHooks,        \* hooks, in insertion order
  bqPc,           \* consumer -> "idle", "waiting" (its next() is pending), "done"
                  \* (next() answered done), "returned" (it left its loop)
  bqSeen,         \* history: consumer -> the events its iterator yielded, in order
  bqHooked,       \* history: the <<hook, event>> calls made by emit, in order
  bqEmitted,      \* history: number of emit() calls; the n-th emits the event n
  bqAtClose,      \* history: bqEmitted when the queue was closed
  \* --- one call of ToolExecutor.executeFromProvider (tool-executor.ts)
  exIn,           \* what the call meets: tool, controller, policy, user, tool.execute
  exOut,          \* what the call came to, see NoOutcome
  \* --- persisting the breaker (sdk.ts saveCircuitBreakerState)
  svSaves,        \* the saveCircuitBreakerState calls, in request order: [snap, st]
  svStore,        \* what the ConfigStore holds under the breaker's key
  \* --- approveToolCall (sdk.ts 274, 311)
  apCalls         \* history: the <<id, allowed>> of the first approveToolCall made for
                  \* id once its tool_approval_request was handed to a hook or iterator

runVars == <<planLen, nameOk, recording, sdkPc, attempt, result, outer, outerClosed,
             aborted, paused, stopRequested, pauseWaiters, approvals, approvalRes,
             eng, inner, innerClosed, fwd, userOps, emittedCalls, cancelledRunning>>
lruVars == <<lruMax, lruTtl, lruMap, lruNow, lruRet, lruWrites, lruPure, lruGone>>
wsVars == <<wsMode, wsBase, wsOps, wsOverlay, wsRet, wsBase0, wsLog>>
rtVars == <<cbOpts, cbByKey, cbNow, cbStreak, rtIn, rtPlan, cbChanged>>
pfVars == <<pfFile, pfText, pfInc, pfTotal, pfHi, pfPc, pfLast>>
tnVars == <<tnPolicy, tnTransform, tnTools, tnPc, tnNames, tnMap, tnLast>>
ctVars == <<ctCall>>
bqVars == <<bqBuf, bqWaiters, bqClosed, bqHooks, bqPc, bqSeen, bqHooked, bqEmitted, bqAtClose>>
exVars == <<exIn, exOut>>
svVars == <<svSaves, svStore>>
apVars == <<apCalls>>
\* The components that stand on their own.
unitVars == <<ctVars, bqVars, exVars, svVars, apVars>>
vars == <<runVars, lruVars, wsVars, rtVars, pfVars, tnVars, unitVars>>

\* What the actions of one component leave alone: the other components.
notRun == <<lruVars, wsVars, rtVars, pfVars, tnVars, unitVars>>
notLru == <<runVars, wsVars, rtVars, pfVars, tnVars, unitVars>>
notWs == <<runVars, lruVars, rtVars, pfVars, tnVars, unitVars>>
notRt == <<runVars, lruVars, wsVars, pfVars, tnVars, unitVars>>
notPf == <<runVars, lruVars, wsVars, rtVars, tnVars, unitVars>>
notTn == <<runVars, lruVars, wsVars, rtVars, pfVars, unitVars>>
notBq == <<runVars, lruVars, wsVars, rtVars, pfVars, tnVars, ctVars, exVars, svVars, apVars>>
notEx == <<runVars, lruVars, wsVars, rtVars, pfVars, tnVars, ctVars, bqVars, svVars, apVars>>
notSv == <<runVars, lruVars, wsVars, pfVars, tnVars, ctVars, bqVars, exVars, apVars>>

Attempts == 1..MaxCandidates

\* ---------------------------------------------------------------- events
Ev(t, id, r) == [type |-> t, id |-> id, reason |-> r]
Status == Ev("status", 0, "none")
ErrorEv == Ev("error", 0, "none")
RunStart == Ev("run_start", 0, "none")
RunFinish(r) == Ev("run_finish", 0, r)
ToolCallEv(id) == Ev("tool_call", id, "none")
ToolResultEv(id, isError) == Ev("tool_result", id, IF isError THEN "isError" ELSE "none")
ApprovalEv(id) == Ev("tool_approval_request", id, "none")
TextDelta == Ev("text_delta", 0, "none")

\* ------------------------------------------------------- engine (pure steps)
\* The engine's local state.  parts: stream parts read in this step, part: the
\* part held while waitIfPaused blocks, n: lastToolCalls.length, i: index of the
\* tool loop (1-based), id: id of the call in flight, decision: the policy's
\* decision for it, fin: finishReason, err: what the catch block caught,
\* res: state of the engine's result future.
NoPart == [text |-> FALSE, n |-> 0]
EngIdle == [pc |-> "idle", step |-> 0, parts |-> 0, part |-> NoPart, n |-> 0,
            i |-> 0, id |-> 0, decision |-> "none", fin |-> "other", err |-> "none",
            res |-> "none"]

\* Outcome of a synchronous stretch of engine code: the next local state, the
\* events emitted on the engine's bus, whether that bus is closed, whether the
\* caller parked itself in pauseWaiters.
Out(e, ev, close, wait) == [eng |-> e, ev |-> ev, close |-> close, wait |-> wait]

Prepend(ev, o) == [o EXCEPT !.ev = ev \o @]

\* Finish without the override of line 139: the finish reason the loop left.
FinishAsLeft(e, ab) ==
  Out([e EXCEPT !.pc = "done", !.res = "resolved"], <<RunFinish(e.fin)>>, TRUE, FALSE)

\* ollama-engine.ts 139-143: normal completion.
Finish(e, ab) ==
  LET r == IF ab /\ e.fin # "cancelled" THEN "cancelled" ELSE e.fin
  IN Out([e EXCEPT !.pc = "done", !.fin = r, !.res = "resolved"],
         <<RunFinish(r)>>, TRUE, FALSE)

\* ollama-engine.ts 144-151: the catch block, entered with the failure err.
Catch(e, ab, err) ==
  LET r == IF ab THEN "cancelled" ELSE "error"
  IN Out([e EXCEPT !.pc = "done", !.fin = r, !.err = err, !.res = "rejected"],
         <<ErrorEv, RunFinish(r)>>, TRUE, FALSE)

\* The head of the step loop without the test of isStopRequested (lines 56-59).
StepHeadIgnoresStop(e, ab, stopReq) ==
  IF e.step >= MaxSteps THEN Finish(e, ab)
  ELSE IF ab THEN Finish([e EXCEPT !.fin = "cancelled"], ab)
  ELSE Out([e EXCEPT !.pc = "chat", !.parts = 0, !.n = 0, !.i = 0],
           <<Status>>, FALSE, FALSE)

\* ollama-engine.ts 51-64: head of the step loop up to the await of chat().
StepHead(e, ab, stopReq) ==
  IF e.step >= MaxSteps THEN Finish(e, ab)
  ELSE IF ab THEN Finish([e EXCEPT !.fin = "cancelled"], ab)
  ELSE IF stopReq THEN Finish([e EXCEPT !.fin = "stop"], ab)
  ELSE Out([e EXCEPT !.pc = "chat", !.parts = 0, !.n = 0, !.i = 0],
           <<Status>>, FALSE, FALSE)

\* tool-executor.ts 44-47 and run-controller.ts 71-73, called at
\* ollama-engine.ts 130, up to the first await that really suspends.
GuardEntry(e, kind, ab, pz) ==
  IF kind = "unknown" THEN Catch(e, ab, "ToolDenied")
  ELSE IF ab THEN Catch(e, ab, "ToolCancelled")
  ELSE IF pz THEN Out([e EXCEPT !.pc = "guardWait"], <<>>, FALSE, TRUE)
  ELSE Out([e EXCEPT !.pc = "decide"], <<>>, FALSE, FALSE)

\* ollama-engine.ts 118-130: one turn of the tool loop at index e.i; kind says
\* whether the model's call names a registered tool, an unknown one, or none;
\* nid is the fresh id (uuid) a tool_call emitted here receives.
ToolLoop(e, kind, ab, pz, stopReq, nid) ==
  IF e.i > e.n
    THEN StepHead([e EXCEPT !.step = @ + 1], ab, stopReq)
  ELSE IF kind = "nameless"
    THEN Out([e EXCEPT !.pc = "tool", !.i = @ + 1], <<>>, FALSE, FALSE)
  ELSE Prepend(<<ToolCallEv(nid)>>,
               GuardEntry([e EXCEPT !.id = nid, !.decision = "none"], kind, ab, pz))

\* ollama-engine.ts 103-117: after the stream loop.
AfterStream(e, kind, ab, pz, stopReq, nid) ==
  IF e.n = 0 THEN Finish([e EXCEPT !.fin = "stop"], ab)
  ELSE Prepend(<<Status>>, ToolLoop([e EXCEPT !.i = 1], kind, ab, pz, stopReq, nid))

\* ollama-engine.ts 78-100: one stream part, once waitIfPaused has returned.
ProcessPart(e, part, kind, ab, pz, stopReq, nid) ==
  IF ab THEN AfterStream([e EXCEPT !.fin = "cancelled"], kind, ab, pz, stopReq, nid)
  ELSE Out([e EXCEPT !.pc = "stream", !.parts = @ + 1,
                     !.n = IF part.n > 0 THEN part.n ELSE @],
           IF part.text THEN <<TextDelta>> ELSE <<>>, FALSE, FALSE)

\* run-controller.ts 73-74: guardToolExecution continues after its wait.
GuardResume(e, ab) ==
  IF ab THEN Catch(e, ab, "ToolCancelled")
  ELSE Out([e EXCEPT !.pc = "decide"], <<>>, FALSE, FALSE)

\* tool-executor.ts 52-68: the policy has decided d.
AfterDecision(e, d, ab) ==
  IF d = "deny" THEN Catch([e EXCEPT !.decision = d], ab, "ToolDenied")
  ELSE IF d = "ask" THEN Out([e EXCEPT !.pc = "askEmitted", !.decision = d], <<>>, FALSE, FALSE)
  ELSE Out([e EXCEPT !.pc = "exec", !.decision = d], <<>>, FALSE, FALSE)

\* AfterApproval without the test of line 62: the tool runs whatever the answer.
AfterApprovalUnchecked(e, allowed, ab) ==
  Out([e EXCEPT !.pc = "exec"], <<>>, FALSE, FALSE)

\* tool-executor.ts 61-68: the approval future has settled.
AfterApproval(e, allowed, ab) ==
  IF allowed THEN Out([e EXCEPT !.pc = "exec"], <<>>, FALSE, FALSE)
  ELSE Catch(e, ab, "ToolDenied")

\* ------------------------------------------------------------ shared steps
\* EventBus.emit and AsyncQueue.push: an event pushed after close is dropped.
Push(q, closed, evs) == IF closed THEN q ELSE q \o evs

EmitOuter(evs) == outer' = IF recording THEN Push(outer, outerClosed, evs) ELSE outer

CountCalls(evs) == Cardinality({k \in 1..Len(evs) : evs[k].type = "tool_call"})

\* uuid(): an id no earlier call of the run has.
Fresh == emittedCalls + 1

\* Installs the outcome o of a synchronous stretch of the current engine.
ApplyEng(o) ==
  /\ eng' = o.eng
  /\ inner' = [inner EXCEPT ![attempt] = Push(@, innerClosed[attempt], o.ev)]
  /\ innerClosed' = [innerClosed EXCEPT ![attempt] = @ \/ o.close]
  /\ pauseWaiters' = IF o.wait THEN Append(pauseWaiters, "engine") ELSE pauseWaiters
  /\ emittedCalls' = emittedCalls + CountCalls(o.ev)

\* The forwarders run on microtasks only (sdk.ts 442-444, AsyncQueue.next):
\* when a callback of the event loop runs, every started forwarder has copied
\* all events its engine bus held.
Drained == \A a \in Attempts : fwd[a] => inner[a] = <<>>

ctlVars == <<aborted, paused, stopRequested, approvals, approvalRes>>
engVars == <<eng, inner, innerClosed, pauseWaiters, emittedCalls>>
sdkVars == <<sdkPc, attempt, result, outerClosed, fwd>>
\* What no action of a run changes: its configuration, and the idle cache.
runCfg == <<planLen, nameOk, recording>>
cfgVars == <<runCfg, notRun>>
histVars == <<userOps, cancelledRunning>>

\* ------------------------------------------------------------ workspaces
\* A base workspace holding files only (part_016, NodeFsWorkspace), wrapped by
\* a JournalWorkspace (part_017) in live mode or by a PreviewWorkspace
\* (preview-workspace.ts) in preview mode (sdk.ts 283-287, 399).  Each call is
\* awaited before the next one is made.
MaxPaths == 2
MaxBytes == 1
MaxWsOps == 2

Paths == 1..MaxPaths
Bytes == 1..MaxBytes
Absent == 0             \* no file: readFile throws, stat returns null

\* part_016 17-23
BaseWrite(b, path, contents) == [b EXCEPT ![path] = contents]
\* part_016 25-28
BaseDelete(b, path) == [b EXCEPT ![path] = Absent]
\* part_016 30-37: fs.rename throws when fromPath does not exist, and replaces toPath.
BaseRenameThrows(b, fromPath, toPath) == b[fromPath] = Absent
BaseRename(b, fromPath, toPath) ==
  IF BaseRenameThrows(b, fromPath, toPath) \/ fromPath = toPath THEN b
  ELSE [b EXCEPT ![toPath] = b[fromPath], ![fromPath] = Absent]

\* A call as the history keeps it.
Call(kind, path, to, bytes) == [kind |-> kind, path |-> path, to |-> to, bytes |-> bytes]
Touched(log) == {log[k].path : k \in 1..Len(log)}
                  \cup {log[k].to : k \in {j \in 1..Len(log) : log[j].kind = "rename"}}

Ret(op, path, val) == [op |-> op, path |-> path, val |-> val]
\* The wrapper was emptied by the last call: what follows starts afresh.
Ended == wsRet.op \in {"rollback", "commit", "discard"}
LogNow == IF Ended THEN <<>> ELSE wsLog
Base0Now == IF Ended THEN wsBase ELSE wsBase0

\* ---- JournalWorkspace
\* part_017 3-6
JournalOp(kind, path, to, before, beforeTo) ==
  [kind |-> kind, path |-> path, to |-> to, before |-> before, beforeTo |-> beforeTo]

\* part_017 17-29: one operation undone.
Restore(b, path, before) ==
  IF before = Absent THEN BaseDelete(b, path) ELSE BaseWrite(b, path, before)

Undo(b, op) ==
  IF op.kind = "write" THEN Restore(b, op.path, op.before)
  ELSE IF op.kind = "delete"
    THEN (IF op.before # Absent THEN BaseWrite(b, op.path, op.before) ELSE b)
  ELSE Restore(Restore(BaseRename(b, op.to, op.path), op.path, op.before),
               op.to, op.beforeTo)

\* Rollback undoing the operations oldest first.
RECURSIVE RollbackForward(_, _)
RollbackForward(b, ops) ==
  IF ops = <<>> THEN b ELSE RollbackForward(Undo(b, Head(ops)), Tail(ops))

\* part_017 13-32
RECURSIVE Rollback(_, _)
Rollback(b, ops) ==
  IF ops = <<>> THEN b
  ELSE Rollback(Undo(b, ops[Len(ops)]), SubSeq(ops, 1, Len(ops) - 1))

\* ------------------------------------------------- supervisor (sdk.ts)
Settled(st, r) == [state |-> st, reason |-> r, cause |-> "none"]

\* LastError losing the failure: the rejection carries no cause.
NoLastError(e) == "none"

\* sdk.ts 456: lastError, the failure the latest attempt's engine e ended with.
LastError(e) == e.err

\* sdk.ts 479: UnifiedAgentError('All provider candidates failed', lastError)
AllFailed(cause) == [Settled("rejected", "all_failed") EXCEPT !.cause = cause]

\* sdk.ts 392-426 and 471-479: the head of the attempt loop for attempt a, and
\* what follows the loop when it is left; pre are events emitted just before.
LoopHead(a, pre) ==
  IF a > planLen \/ aborted
    THEN /\ sdkPc' = "done"
         /\ attempt' = a
         /\ outerClosed' = TRUE
         /\ IF aborted
              THEN /\ EmitOuter(pre \o <<RunFinish("cancelled")>>)
                   /\ result' = Settled("resolved", "cancelled")
              ELSE /\ EmitOuter(pre)
                   /\ result' = AllFailed(LastError(eng))
         /\ UNCHANGED <<eng, inner>>
    ELSE \* a new engine is created and run: ollama-engine.ts 28-32
         /\ sdkPc' = "engineRun"
         /\ attempt' = a
         /\ EmitOuter(pre \o <<Status>>)
         /\ eng' = [EngIdle EXCEPT !.pc = "client"]
         /\ inner' = [inner EXCEPT ![a] = <<RunStart>>]
         /\ UNCHANGED <<result, outerClosed>>

sdkOwn == <<runCfg, ctlVars, innerClosed, pauseWaiters, emittedCalls, histVars, fwd>>
sdkRest == <<sdkOwn, notRun>>

\* sdk.ts 358-394: the breaker state is loaded, the plan is built.
SdkPlan ==
  /\ sdkPc = "load"
  /\ IF planLen = 0
       THEN /\ sdkPc' = "done"
            /\ result' = Settled("rejected", "no_candidates")
            /\ UNCHANGED <<attempt, outer, outerClosed, eng, inner>>
       ELSE LoopHead(1, <<Status>>)
  /\ UNCHANGED sdkRest

\* sdk.ts 446 / 455-458: the engine's result future has settled; what the
\* supervisor does to the run.
SdkResultRun ==
  /\ sdkPc = "awaitResult"
  /\ eng.res \in {"resolved", "rejected"}
  /\ sdkPc' = IF eng.res = "resolved" THEN "awaitFwd" ELSE "catchSave"
  /\ UNCHANGED <<sdkOwn, attempt, result, outer, outerClosed, eng, inner>>

\* The same with a breaker that is left out of the picture.
SdkResult == SdkResultRun /\ UNCHANGED notRun

\* What the supervisor leaves alone when it ends an attempt's workspace wrapper.
sdkWsOwn == <<planLen, nameOk, recording, lruVars, pfVars, tnVars, unitVars, wsMode,
              ctlVars, innerClosed, pauseWaiters, emittedCalls, histVars, fwd>>
sdkWsRest == <<sdkWsOwn, rtVars>>

\* sdk.ts 447-452: the forwarder has drained the closed engine bus; in live
\* mode the attempt's journal is committed (line 450, part_017 34-36).
SdkFwdDoneRun ==
  /\ sdkPc = "awaitFwd"
  /\ inner[attempt] = <<>> /\ innerClosed[attempt]
  /\ sdkPc' = "succSave"
  /\ IF wsMode = "live"
       THEN wsOps' = <<>> /\ wsRet' = Ret("commit", 0, 1)
       ELSE UNCHANGED <<wsOps, wsRet>>
  /\ UNCHANGED <<sdkWsOwn, wsBase, wsOverlay, wsBase0, wsLog,
                 attempt, result, outer, outerClosed, eng, inner>>

SdkFwdDone == SdkFwdDoneRun /\ UNCHANGED rtVars

\* sdk.ts 452-454: the breaker state is saved, the result is returned.
SdkReturn ==
  /\ sdkPc = "succSave"
  /\ sdkPc' = "done"
  /\ result' = Settled("resolved", eng.fin)
  /\ UNCHANGED <<sdkRest, attempt, outer, outerClosed, eng, inner>>

\* sdk.ts 458-462: the failure is saved, the error event is emitted.
SdkCatchSaved ==
  /\ sdkPc = "catchSave"
  /\ sdkPc' = "rollback"
  /\ EmitOuter(<<ErrorEv>>)
  /\ UNCHANGED <<sdkRest, attempt, result, outerClosed, eng, inner>>

\* RollbackAttempt leaving the base as the failed attempt left it.
KeepAttempt(b, ops) == b

\* sdk.ts 461-462: what attemptWorkspace.rollback() makes of the base.
RollbackAttempt(b, ops) == Rollback(b, ops)

\* sdk.ts 461-469: the journal of the failed attempt is rolled back (live) or
\* the overlay discarded (preview); then the loop head of the next attempt,
\* which wraps the base in a new JournalWorkspace (line 399).
SdkRolledBack ==
  /\ sdkPc = "rollback"
  /\ LoopHead(attempt + 1, <<Status>>)
  /\ IF wsMode = "live"
       THEN /\ wsBase' = RollbackAttempt(wsBase, wsOps)
            /\ wsOps' = <<>>
            /\ wsRet' = Ret("rollback", 0, 1)
            /\ UNCHANGED wsOverlay
       ELSE /\ wsOverlay' = <<>>
            /\ wsRet' = Ret("discard", 0, 1)
            /\ UNCHANGED <<wsBase, wsOps>>
  /\ UNCHANGED <<sdkWsRest, wsBase0, wsLog>>

\* sdk.ts 442-444: the forwarder of attempt a copies one engine event to the outer bus.
Forward(a) ==
  /\ fwd[a]
  /\ inner[a] # <<>>
  /\ EmitOuter(<<Head(inner[a])>>)
  /\ inner' = [inner EXCEPT ![a] = Tail(@)]
  /\ UNCHANGED <<cfgVars, ctlVars, sdkVars, eng, innerClosed, pauseWaiters,
                 emittedCalls, histVars>>

\* ------------------------------------------- engine (ollama-engine.ts)
CallKinds == {"known", "unknown", "nameless"}
\* A part of the model's stream: a content delta, or the tool calls of the turn.
Parts == {[text |-> TRUE, n |-> 0]} \cup {[text |-> FALSE, n |-> k] : k \in 1..MaxCalls}
Decisions == {"allow", "deny", "ask"}

engOwn == <<runCfg, ctlVars, attempt, result, outerClosed, outer, histVars>>
engRest == <<engOwn, notRun>>

\* ollama-engine.ts 32-64: createClient resolved; the engine's task runs to the
\* first chat() and run() returns, so that the supervisor starts the forwarder.
EngClientOk ==
  /\ eng.pc = "client"
  /\ Drained
  /\ ApplyEng(StepHead(eng, aborted, stopRequested))
  /\ sdkPc' = "awaitResult"
  /\ fwd' = [fwd EXCEPT ![attempt] = TRUE]
  /\ UNCHANGED engRest

\* ollama-engine.ts 32, 169-175: createClient rejected, and so does engine.run.
EngClientFailRun ==
  /\ eng.pc = "client"
  /\ Drained
  /\ eng' = [eng EXCEPT !.pc = "done", !.err = "provider", !.res = "failed"]
  /\ sdkPc' = "catchSave"
  /\ UNCHANGED <<engOwn, inner, innerClosed, pauseWaiters, emittedCalls, fwd>>

EngClientFail == EngClientFailRun /\ UNCHANGED notRun

\* ollama-engine.ts 64: chat() resolved with a stream.
EngChatOk ==
  /\ eng.pc = "chat"
  /\ Drained
  /\ eng' = [eng EXCEPT !.pc = "stream"]
  /\ UNCHANGED <<engRest, inner, innerClosed, pauseWaiters, emittedCalls, sdkPc, fwd>>

\* ollama-engine.ts 64 / 76: chat() or the stream raised.
EngProviderFail ==
  /\ eng.pc \in {"chat", "stream"}
  /\ Drained
  /\ ApplyEng(Catch(eng, aborted, "provider"))
  /\ UNCHANGED <<engRest, sdkPc, fwd>>

\* ollama-engine.ts 76-77: a part arrives; waitIfPaused parks the task when paused.
EngPart(part, kind) ==
  /\ eng.pc = "stream"
  /\ eng.parts < MaxParts
  /\ Drained
  /\ ApplyEng(IF paused
                THEN Out([eng EXCEPT !.pc = "streamWait", !.part = part], <<>>, FALSE, TRUE)
                ELSE ProcessPart(eng, part, kind, aborted, paused, stopRequested, Fresh))
  /\ UNCHANGED <<engRest, sdkPc, fwd>>

Released == "engine" \notin {pauseWaiters[k] : k \in 1..Len(pauseWaiters)}

\* run-controller.ts 53 resolved by resume(): the parked stream loop continues.
EngStreamResumed(kind) ==
  /\ eng.pc = "streamWait"
  /\ Released
  /\ ApplyEng(ProcessPart([eng EXCEPT !.part = NoPart], eng.part, kind, aborted, paused,
                          stopRequested, Fresh))
  /\ UNCHANGED <<engRest, sdkPc, fwd>>

\* ollama-engine.ts 76, 103-130: the stream is exhausted.
EngStreamEnd(kind) ==
  /\ eng.pc = "stream"
  /\ Drained
  /\ ApplyEng(AfterStream(eng, kind, aborted, paused, stopRequested, Fresh))
  /\ UNCHANGED <<engRest, sdkPc, fwd>>

\* ollama-engine.ts 118-123: the loop goes on after a call without a tool name.
EngToolNext(kind) ==
  /\ eng.pc = "tool"
  /\ ApplyEng(ToolLoop(eng, kind, aborted, paused, stopRequested, Fresh))
  /\ UNCHANGED <<engRest, sdkPc, fwd>>

EngGuardResumed ==
  /\ eng.pc = "guardWait"
  /\ Released
  /\ ApplyEng(GuardResume(eng, aborted))
  /\ UNCHANGED <<engRest, sdkPc, fwd>>

\* tool-executor.ts 52-60: policy.decide resolved; ask emits the approval
\* request on the outer bus, which the executor holds (sdk.ts 407-414).
EngDecide(d) ==
  /\ eng.pc = "decide"
  /\ ApplyEng(AfterDecision(eng, d, aborted))
  /\ EmitOuter(IF d = "ask" THEN <<ApprovalEv(eng.id)>> ELSE <<>>)
  /\ UNCHANGED <<cfgVars, ctlVars, attempt, result, outerClosed, histVars, sdkPc, fwd>>

\* run-controller.ts 56-61, called at tool-executor.ts 61.
EngRequestApproval ==
  /\ eng.pc = "askEmitted"
  /\ IF aborted
       THEN /\ ApplyEng(AfterApproval(eng, FALSE, aborted))
            /\ UNCHANGED approvals
       ELSE /\ approvals' = approvals \cup {eng.id}
            /\ eng' = [eng EXCEPT !.pc = "approvalWait"]
            /\ UNCHANGED <<inner, innerClosed, pauseWaiters, emittedCalls>>
  /\ UNCHANGED <<cfgVars, aborted, paused, stopRequested, approvalRes, attempt, result,
                 outerClosed, outer, histVars, sdkPc, fwd>>

\* tool-executor.ts 61-68: the approval future has settled.
EngApprovalDone ==
  /\ eng.pc = "approvalWait"
  /\ \E allowed \in BOOLEAN :
       /\ <<eng.id, allowed>> \in approvalRes
       /\ ApplyEng(AfterApproval(eng, allowed, aborted))
       /\ approvalRes' = approvalRes \ {<<eng.id, allowed>>}
  /\ UNCHANGED <<cfgVars, aborted, paused, stopRequested, approvals, attempt, result,
                 outerClosed, outer, histVars, sdkPc, fwd>>

\* What the promise of tool.execute settles with: a value it returns, or what
\* it raises: an Error with a message or with none, a string, or undefined / null.
Settle(kind, value) == [kind |-> kind, value |-> value]
Settlements ==
  {Settle("returned", "ok"), Settle("Error", "boom"), Settle("Error", ""),
   Settle("string", "boom"), Settle("nullish", "")}

\* tool-executor.ts 73: (e as Error).message || String(e)
MessageOf(o) == IF o.kind = "Error" /\ o.value = "" THEN "Error" ELSE o.value

\* What executeFromProvider comes to: a ToolResult it returns, or a failure it raises.
Returned(id, isError, res) ==
  [thrown |-> "none", id |-> id, isError |-> isError, result |-> res]
Raised(err) == [thrown |-> err, id |-> 0, isError |-> FALSE, result |-> ""]

\* tool-executor.ts 67-76: tool.execute has settled with o.  Reading .message of
\* undefined or null raises a TypeError inside the catch block.
ToolSettled(id, o) ==
  IF o.kind = "returned" THEN Returned(id, FALSE, o.value)
  ELSE IF o.kind = "nullish" THEN Raised("TypeError")
  ELSE Returned(id, TRUE, MessageOf(o))

\* tool-executor.ts 67-76 and ollama-engine.ts 131-137: tool.execute has settled;
\* with a ToolResult the engine goes on with the loop.
EngExecDone(o, kind) ==
  /\ eng.pc = "exec"
  /\ LET r == ToolSettled(eng.id, o)
     IN ApplyEng(IF r.thrown # "none"
                   THEN Catch(eng, aborted, r.thrown)
                   ELSE Prepend(<<ToolResultEv(eng.id, r.isError)>>,
                                ToolLoop([eng EXCEPT !.i = @ + 1], kind, aborted, paused,
                                         stopRequested, Fresh)))
  /\ UNCHANGED <<engRest, sdkPc, fwd>>

\* ------------------------------------- control API (run-controller.ts, sdk.ts)
\* viaRun: the call is made on the AgentRun (sdk.ts 295-310), which also emits a
\* status event; otherwise on the ThinkingTimeApi handed to hooks (sdk.ts 269-275).
UserEmit(viaRun) ==
  /\ viaRun => userOps < MaxUserOps
  /\ userOps' = IF viaRun THEN userOps + 1 ELSE userOps
  /\ EmitOuter(IF viaRun THEN <<Status>> ELSE <<>>)

userRest == <<cfgVars, sdkVars, eng, inner, innerClosed, emittedCalls>>

\* run-controller.ts 27-29
Pause(viaRun) ==
  /\ paused' = TRUE
  /\ UserEmit(viaRun)
  /\ UNCHANGED <<userRest, aborted, stopRequested, approvals, approvalRes, pauseWaiters, cancelledRunning>>

\* run-controller.ts 31-34
Resume(viaRun) ==
  /\ paused' = FALSE
  /\ pauseWaiters' = <<>>
  /\ UserEmit(viaRun)
  /\ UNCHANGED <<userRest, aborted, stopRequested, approvals, approvalRes, cancelledRunning>>

\* run-controller.ts 36-38
Stop(viaRun) ==
  /\ stopRequested' = TRUE
  /\ UserEmit(viaRun)
  /\ UNCHANGED <<userRest, aborted, paused, approvals, approvalRes, pauseWaiters, cancelledRunning>>

\* cancel() leaving the outstanding approvals as they are.
CancelKeepsApprovals(viaRun) ==
  /\ aborted' = TRUE
  /\ paused' = FALSE
  /\ pauseWaiters' = <<>>
  /\ UserEmit(viaRun)
  /\ cancelledRunning' = IF aborted THEN cancelledRunning ELSE eng.pc \notin {"idle", "done"}
  /\ UNCHANGED <<userRest, stopRequested, approvals, approvalRes>>

\* run-controller.ts 40-49
Cancel(viaRun) ==
  /\ aborted' = TRUE
  /\ paused' = FALSE
  /\ pauseWaiters' = <<>>
  /\ approvalRes' = approvalRes \cup {<<id, FALSE>> : id \in approvals}
  /\ approvals' = {}
  /\ UserEmit(viaRun)
  /\ cancelledRunning' = IF aborted THEN cancelledRunning ELSE eng.pc \notin {"idle", "done"}
  /\ UNCHANGED <<userRest, stopRequested>>

\* run-controller.ts 63-69, through approveToolCall (sdk.ts 274, 311).
ResolveApproval(id, allowed) ==
  /\ id \in approvals
  /\ approvalRes' = approvalRes \cup {<<id, allowed>>}
  /\ approvals' = approvals \ {id}
  /\ UNCHANGED <<userRest, aborted, paused, stopRequested, pauseWaiters, outer, histVars>>

\* ------------------------------------------------------------ LruCache
\* (config-store.ts 21-90)
MaxCap == 2
MaxKeys == 3
MaxVal == 1
MaxTtl == 1
MaxTime == 2

Keys == 1..MaxKeys
Vals == 1..MaxVal
NoExpiry == -1          \* expiresAt = null
Undefined == 0          \* undefined, not a value of Vals

Max(a, b) == IF a >= b THEN a ELSE b

MapKeys(m) == {m[k].key : k \in 1..Len(m)}
MapGet(m, key) == CHOOSE e \in {m[k] : k \in 1..Len(m)} : e.key = key
MapDelete(m, key) ==
  LET F[k \in 0..Len(m)] ==
        IF k = 0 THEN <<>>
        ELSE IF m[k].key # key THEN Append(F[k - 1], m[k]) ELSE F[k - 1]
  IN F[Len(m)]

Expired(e, now) == e.expiresAt # NoExpiry /\ now > e.expiresAt

\* config-store.ts 75-80
PruneExpired(m, now) ==
  LET F[k \in 0..Len(m)] ==
        IF k = 0 THEN <<>>
        ELSE IF ~Expired(m[k], now) THEN Append(F[k - 1], m[k]) ELSE F[k - 1]
  IN F[Len(m)]

\* config-store.ts 82-89
RECURSIVE EvictLoop(_, _)
EvictLoop(m, max) == IF Len(m) > max THEN EvictLoop(Tail(m), max) ELSE m

\* EvictIfNeeded dropping the newest entries instead of the oldest.
EvictNewest(m, max, now) ==
  LET p == PruneExpired(m, now)
  IN SubSeq(p, 1, IF Len(p) > max THEN max ELSE Len(p))

EvictIfNeeded(m, max, now) == EvictLoop(PruneExpired(m, now), max)

\* config-store.ts 56-61
LruSetMap(m, key, value, ttl, max, now) ==
  LET expiresAt == IF ttl # 0 THEN now + ttl ELSE NoExpiry
  IN EvictIfNeeded(Append(MapDelete(m, key), [key |-> key, value |-> value,
                                             expiresAt |-> expiresAt]), max, now)

\* LruGetMap without line 47: an expired entry is reported missing but kept.
LruGetKeepsStale(m, key, now) ==
  IF key \in MapKeys(m) /\ ~Expired(MapGet(m, key), now)
    THEN Append(MapDelete(m, key), MapGet(m, key))
    ELSE m

\* config-store.ts 43-54: the map after get(key), and what get returns.
LruGetMap(m, key, now) ==
  IF key \notin MapKeys(m) THEN m
  ELSE IF Expired(MapGet(m, key), now) THEN MapDelete(m, key)
  ELSE Append(MapDelete(m, key), MapGet(m, key))

\* config-store.ts 46: get(key) finds the entry of key past its expiry.
Stale(m, key, now) == key \in MapKeys(m) /\ Expired(MapGet(m, key), now)

LruGetRet(m, key, now) ==
  IF key \notin MapKeys(m) THEN Undefined
  ELSE IF Expired(MapGet(m, key), now) THEN Undefined
  ELSE MapGet(m, key).value

lruRest == <<notLru, lruMax, lruTtl>>

LruSet(key, value) ==
  /\ lruMap' = LruSetMap(lruMap, key, value, lruTtl, lruMax, lruNow)
  /\ lruPure' = (lruPure /\ key \notin {lruWrites[k] : k \in 1..Len(lruWrites)}
                         /\ PruneExpired(lruMap, lruNow) = lruMap)
  /\ lruWrites' = IF lruPure' THEN Append(lruWrites, key) ELSE <<>>
  /\ lruGone' = lruGone \ {key}
  /\ UNCHANGED <<lruRest, lruNow, lruRet>>

LruGet(key) ==
  /\ lruMap' = LruGetMap(lruMap, key, lruNow)
  /\ lruRet' = LruGetRet(lruMap, key, lruNow)
  /\ lruPure' = FALSE /\ lruWrites' = <<>>
  /\ lruGone' = IF Stale(lruMap, key, lruNow) THEN lruGone \cup {key} ELSE lruGone
  /\ UNCHANGED <<lruRest, lruNow>>

\* config-store.ts 63-65
LruHas(key) ==
  /\ lruMap' = LruGetMap(lruMap, key, lruNow)
  /\ lruRet' = IF LruGetRet(lruMap, key, lruNow) # Undefined THEN 1 ELSE 0
  /\ lruPure' = FALSE /\ lruWrites' = <<>>
  /\ lruGone' = IF Stale(lruMap, key, lruNow) THEN lruGone \cup {key} ELSE lruGone
  /\ UNCHANGED <<lruRest, lruNow>>

\* config-store.ts 67-69
LruDelete(key) ==
  /\ lruMap' = MapDelete(lruMap, key)
  /\ lruRet' = IF key \in MapKeys(lruMap) THEN 1 ELSE 0
  /\ lruPure' = FALSE /\ lruWrites' = <<>>
  /\ UNCHANGED <<lruRest, lruNow, lruGone>>

\* config-store.ts 71-73
LruClear ==
  /\ lruMap' = <<>>
  /\ lruPure' = FALSE /\ lruWrites' = <<>>
  /\ UNCHANGED <<lruRest, lruNow, lruRet, lruGone>>

\* config-store.ts 38-41
LruSize ==
  /\ lruMap' = PruneExpired(lruMap, lruNow)
  /\ lruRet' = Len(lruMap')
  /\ lruPure' = FALSE /\ lruWrites' = <<>>
  /\ UNCHANGED <<lruRest, lruNow, lruGone>>

\* Date.now() advances.
LruTick ==
  /\ lruNow < MaxTime
  /\ lruNow' = lruNow + 1
  /\ UNCHANGED <<lruRest, lruMap, lruRet, lruWrites, lruPure, lruGone>>

\* The cache of a run's SharedMemoryPool is not touched by the run itself.
LruIdle ==
  /\ lruMax = 1 /\ lruTtl = 0 /\ lruMap = <<>> /\ lruNow = 0
  /\ lruRet = Undefined /\ lruWrites = <<>> /\ lruPure = TRUE /\ lruGone = {}

\* config-store.ts 33-36: new LruCache({maxEntries, ttlMs})
LruInit ==
  /\ \E maxEntries \in 0..MaxCap : lruMax = Max(1, maxEntries)
  /\ lruTtl \in 0..MaxTtl
  /\ lruMap = <<>> /\ lruNow = 0
  /\ lruRet = Undefined /\ lruWrites = <<>> /\ lruPure = TRUE /\ lruGone = {}

\* ---- JournalWorkspace and PreviewWorkspace calls
wsRest == <<notWs, wsMode>>

Logged(call) ==
  /\ Len(LogNow) < MaxWsOps
  /\ wsLog' = Append(LogNow, call)
  /\ wsBase0' = Base0Now

\* part_017 42-46
JWrite(path, contents) ==
  /\ wsMode = "live"
  /\ Logged(Call("write", path, 0, contents))
  /\ wsOps' = Append(wsOps, JournalOp("write", path, 0, wsBase[path], Absent))
  /\ wsBase' = BaseWrite(wsBase, path, contents)
  /\ wsRet' = Ret("write", path, 1)
  /\ UNCHANGED <<wsRest, wsOverlay>>

\* part_017 48-52
JDelete(path) ==
  /\ wsMode = "live"
  /\ Logged(Call("delete", path, 0, 0))
  /\ wsOps' = Append(wsOps, JournalOp("delete", path, 0, wsBase[path], Absent))
  /\ wsBase' = BaseDelete(wsBase, path)
  /\ wsRet' = Ret("delete", path, 1)
  /\ UNCHANGED <<wsRest, wsOverlay>>

\* part_017 54-59: the operation is journalled before the base renames, which may throw.
JRename(fromPath, toPath) ==
  /\ wsMode = "live"
  /\ Logged(Call("rename", fromPath, toPath, 0))
  /\ wsOps' = Append(wsOps, JournalOp("rename", fromPath, toPath,
                                      wsBase[fromPath], wsBase[toPath]))
  /\ wsBase' = BaseRename(wsBase, fromPath, toPath)
  /\ wsRet' = Ret("rename", fromPath,
                  IF BaseRenameThrows(wsBase, fromPath, toPath) THEN 0 ELSE 1)
  /\ UNCHANGED <<wsRest, wsOverlay>>

\* part_017 13-32
JRollback ==
  /\ wsMode = "live"
  /\ ~Ended
  /\ wsBase' = Rollback(wsBase, wsOps)
  /\ wsOps' = <<>>
  /\ wsRet' = Ret("rollback", 0, 1)
  /\ UNCHANGED <<wsRest, wsOverlay, wsBase0, wsLog>>

\* part_017 34-36
JCommit ==
  /\ wsMode = "live"
  /\ ~Ended
  /\ wsOps' = <<>>
  /\ wsRet' = Ret("commit", 0, 1)
  /\ UNCHANGED <<wsRest, wsBase, wsOverlay, wsBase0, wsLog>>

\* part_017 17-29 with a base that fails one call: the call-th base call made
\* for the entry op rejects.  For a write or a delete entry the rejection leaves
\* rollback() (lines 17-21 await the base bare); for a rename entry each of the
\* three calls has its own catch (lines 24-28) and the next one is made.
UndoCalls(op) ==
  IF op.kind = "rename" THEN 3
  ELSE IF op.kind = "delete" /\ op.before = Absent THEN 0
  ELSE 1
UndoFaulty(b, op, call) ==
  IF op.kind # "rename" THEN [base |-> b, thrown |-> TRUE]
  ELSE LET b1 == IF call = 1 THEN b ELSE BaseRename(b, op.to, op.path)
           b2 == IF call = 2 THEN b1 ELSE Restore(b1, op.path, op.before)
           b3 == IF call = 3 THEN b2 ELSE Restore(b2, op.to, op.beforeTo)
       IN [base |-> b3, thrown |-> FALSE]

\* part_017 13-32: rollback() over a base whose call-th call for entry k fails:
\* the base it leaves, the journal it leaves, whether it rejected.
RollbackFaulty(b, ops, k, call) ==
  LET above == Rollback(b, SubSeq(ops, k + 1, Len(ops)))
      u == UndoFaulty(above, ops[k], call)
  IN IF u.thrown THEN [base |-> u.base, ops |-> ops, thrown |-> TRUE]
     ELSE [base |-> Rollback(u.base, SubSeq(ops, 1, k - 1)), ops |-> <<>>,
           thrown |-> FALSE]

\* part_017 13-32, the base failing once during the unwind.
JRollbackFaulty(k, call) ==
  /\ wsMode = "live"
  /\ ~Ended
  /\ k \in 1..Len(wsOps) /\ call \in 1..UndoCalls(wsOps[k])
  /\ LET r == RollbackFaulty(wsBase, wsOps, k, call)
     IN /\ wsBase' = r.base
        /\ wsOps' = r.ops
        /\ wsRet' = IF r.thrown THEN Ret("rollbackRejected", k, 0)
                                ELSE Ret("rollback", k, 1)
  /\ UNCHANGED <<wsRest, wsOverlay, wsBase0, wsLog>>

\* ---- the tools of a run's attempt
\* fs-tools: the tool tool.execute is running (tool-executor.ts 68) calls the
\* workspace of its execution context, the attempt's JournalWorkspace
\* (sdk.ts 399-405).
ToolWrite(path, contents) == eng.pc = "exec" /\ JWrite(path, contents)
ToolDelete(path) == eng.pc = "exec" /\ JDelete(path)
ToolRename(fromPath, toPath) == eng.pc = "exec" /\ JRename(fromPath, toPath)

\* ---- PreviewWorkspace
\* preview-workspace.ts 4-7, with the key under which the overlay holds the entry:
\* the path, or fromPath and toPath for a rename.
Entry(kind, path, to, bytes, existed) ==
  [kind |-> kind, path |-> path, to |-> to, bytes |-> bytes, existedBefore |-> existed]
KeyOf(e) == IF e.kind = "rename" THEN <<e.path, e.to>> ELSE <<e.path, 0>>

OvHas(ov, key) == \E k \in 1..Len(ov) : KeyOf(ov[k]) = key
OvGet(ov, key) == ov[CHOOSE k \in 1..Len(ov) : KeyOf(ov[k]) = key]
\* Map.set: a key already held keeps its place.
OvSet(ov, e) ==
  IF OvHas(ov, KeyOf(e))
    THEN [k \in 1..Len(ov) |-> IF KeyOf(ov[k]) = KeyOf(e) THEN e ELSE ov[k]]
    ELSE Append(ov, e)

\* readFile looking at pending writes only.
PReadIgnoresDelete(ov, b, path) ==
  IF OvHas(ov, <<path, 0>>) /\ OvGet(ov, <<path, 0>>).kind = "write"
    THEN OvGet(ov, <<path, 0>>).bytes
  ELSE b[path]

\* preview-workspace.ts 43-48: the bytes read, Absent when readFile throws.
PReadRet(ov, b, path) ==
  IF OvHas(ov, <<path, 0>>) /\ OvGet(ov, <<path, 0>>).kind = "write"
    THEN OvGet(ov, <<path, 0>>).bytes
  ELSE IF OvHas(ov, <<path, 0>>) /\ OvGet(ov, <<path, 0>>).kind = "delete" THEN Absent
  ELSE b[path]

\* preview-workspace.ts 65-70: whether stat returns a StatLike (1) or null (0).
PStatRet(ov, b, path) ==
  IF OvHas(ov, <<path, 0>>) /\ OvGet(ov, <<path, 0>>).kind = "delete" THEN 0
  ELSE IF OvHas(ov, <<path, 0>>) /\ OvGet(ov, <<path, 0>>).kind = "write" THEN 1
  ELSE IF b[path] # Absent THEN 1 ELSE 0

\* writeFile passing the bytes on to the base as well.
PWriteThrough(path, contents) ==
  /\ wsMode = "preview"
  /\ Logged(Call("write", path, 0, contents))
  /\ wsOverlay' = OvSet(wsOverlay, Entry("write", path, 0, contents, wsBase[path] # Absent))
  /\ wsBase' = BaseWrite(wsBase, path, contents)
  /\ wsRet' = Ret("write", path, 1)
  /\ UNCHANGED <<wsRest, wsOps>>

\* preview-workspace.ts 50-53
PWrite(path, contents) ==
  /\ wsMode = "preview"
  /\ Logged(Call("write", path, 0, contents))
  /\ wsOverlay' = OvSet(wsOverlay, Entry("write", path, 0, contents, wsBase[path] # Absent))
  /\ wsRet' = Ret("write", path, 1)
  /\ UNCHANGED <<wsRest, wsBase, wsOps>>

\* preview-workspace.ts 55-58
PDelete(path) ==
  /\ wsMode = "preview"
  /\ Logged(Call("delete", path, 0, 0))
  /\ wsOverlay' = OvSet(wsOverlay, Entry("delete", path, 0, 0, wsBase[path] # Absent))
  /\ wsRet' = Ret("delete", path, 1)
  /\ UNCHANGED <<wsRest, wsBase, wsOps>>

\* preview-workspace.ts 60-63
PRename(fromPath, toPath) ==
  /\ wsMode = "preview"
  /\ Logged(Call("rename", fromPath, toPath, 0))
  /\ wsOverlay' = OvSet(wsOverlay, Entry("rename", fromPath, toPath, 0,
                                         wsBase[fromPath] # Absent))
  /\ wsRet' = Ret("rename", fromPath, 1)
  /\ UNCHANGED <<wsRest, wsBase, wsOps>>

\* preview-workspace.ts 43-48
PRead(path) ==
  /\ wsMode = "preview"
  /\ ~Ended
  /\ wsRet' = Ret("read", path, PReadRet(wsOverlay, wsBase, path))
  /\ UNCHANGED <<wsRest, wsBase, wsOps, wsOverlay, wsBase0, wsLog>>

\* preview-workspace.ts 65-70
PStat(path) ==
  /\ wsMode = "preview"
  /\ ~Ended
  /\ wsRet' = Ret("stat", path, PStatRet(wsOverlay, wsBase, path))
  /\ UNCHANGED <<wsRest, wsBase, wsOps, wsOverlay, wsBase0, wsLog>>

\* preview-workspace.ts 38-41, also called at sdk.ts 463-464
PDiscard ==
  /\ wsMode = "preview"
  /\ ~Ended
  /\ wsOverlay' = <<>>
  /\ wsRet' = Ret("discard", 0, 1)
  /\ UNCHANGED <<wsRest, wsBase, wsOps, wsBase0, wsLog>>

\* preview-workspace.ts 21-25: the renames, in the overlay's order; the first
\* rename the base refuses ends the commit.
RECURSIVE CommitRenames(_, _, _)
CommitRenames(b, ov, k) ==
  IF k > Len(ov) THEN [base |-> b, ok |-> TRUE]
  ELSE IF ov[k].kind # "rename" THEN CommitRenames(b, ov, k + 1)
  ELSE IF BaseRenameThrows(b, ov[k].path, ov[k].to) THEN [base |-> b, ok |-> FALSE]
  ELSE CommitRenames(BaseRename(b, ov[k].path, ov[k].to), ov, k + 1)

\* preview-workspace.ts 27-33: then the writes and deletes, in the overlay's order.
RECURSIVE CommitWrites(_, _, _)
CommitWrites(b, ov, k) ==
  IF k > Len(ov) THEN b
  ELSE IF ov[k].kind = "write"
    THEN CommitWrites(BaseWrite(b, ov[k].path, ov[k].bytes), ov, k + 1)
  ELSE IF ov[k].kind = "delete" THEN CommitWrites(BaseDelete(b, ov[k].path), ov, k + 1)
  ELSE CommitWrites(b, ov, k + 1)

\* preview-workspace.ts 19-36, through run.commitPreview (sdk.ts 318)
PCommit ==
  /\ wsMode = "preview"
  /\ ~Ended
  /\ LET r == CommitRenames(wsBase, wsOverlay, 1)
     IN IF r.ok
          THEN /\ wsBase' = CommitWrites(r.base, wsOverlay, 1)
               /\ wsOverlay' = <<>>
               /\ wsRet' = Ret("commit", 0, 1)
          ELSE /\ wsBase' = r.base
               /\ wsOverlay' = wsOverlay
               /\ wsRet' = Ret("commitFailed", 0, 0)
  /\ UNCHANGED <<wsRest, wsOps, wsBase0, wsLog>>

\* A wrapper on a base of MaxPaths paths nothing has been done to.
WsFresh ==
  /\ wsBase \in [Paths -> Bytes \cup {Absent}]
  /\ wsBase0 = wsBase
  /\ wsOps = <<>> /\ wsOverlay = <<>> /\ wsLog = <<>>
  /\ wsRet = Ret("none", 0, 0)

\* The workspace of a run whose tools are not called.
WsIdle == wsMode = "live" /\ wsBase = [path \in Paths |-> Absent] /\ WsFresh

\* ------------------------------------------------- breaker and router
\* A CircuitBreaker keyed by the refs of a catalog of two models, one for each
\* of two providers, and the plan() the supervisor asks of the ModelRouter.
MaxThreshold == 2
MaxBase == 2
MaxCool == 3
MaxFails == 3
MaxNow == 3

Providers == {1, 2}
NoRank == 100                       \* latencyRank ?? 100, costRank ?? 100
PenaltyPerFailure == 1000
OpenCircuitPenalty == 1000000
Undef == -1                         \* undefined
NoModel == 0                        \* pref.model, pref.provider unset

\* part_010 3-13, 15-41: the profiles registered, in registration order.
Profile(provider, id, latencyRank, costRank) ==
  [provider |-> provider, id |-> id, latencyRank |-> latencyRank, costRank |-> costRank]
Catalog == <<Profile(1, 1, 2, Undef), Profile(2, 1, 1, Undef)>>
NoProfile == Profile(0, 0, Undef, Undef)
Ref(provider, model) == <<provider, model>>
Refs == {Ref(Catalog[k].provider, Catalog[k].id) : k \in 1..Len(Catalog)}

Min(a, b) == IF a <= b THEN a ELSE b
RECURSIVE Pow2(_)
Pow2(n) == IF n = 0 THEN 1 ELSE 2 * Pow2(n - 1)

\* circuit-breaker.ts 24-28
CbEntry(n, at, until) ==
  [present |-> TRUE, consecutiveFailures |-> n, lastFailureAt |-> at, openUntil |-> until]
NoEntry == [present |-> FALSE, consecutiveFailures |-> 0, lastFailureAt |-> Undef,
            openUntil |-> Undef]
\* e?.openUntil && now < e.openUntil: an openUntil of 0 is as good as none.
OpenAt(e, now) == e.present /\ e.openUntil # Undef /\ e.openUntil # 0 /\ now < e.openUntil

\* circuit-breaker.ts 60-63
IsOpen(byKey, key, now) == OpenAt(byKey[key], now)

\* getPenalty counting a circuit as open at the instant it expires.
GetPenaltyInclusive(byKey, key, now) ==
  IF key \notin DOMAIN byKey \/ ~byKey[key].present THEN 0
  ELSE IF LET e == byKey[key]
          IN e.openUntil # Undef /\ e.openUntil # 0 /\ now <= e.openUntil
    THEN OpenCircuitPenalty
  ELSE byKey[key].consecutiveFailures * PenaltyPerFailure

\* circuit-breaker.ts 65-70
GetPenalty(byKey, key, now) ==
  IF key \notin DOMAIN byKey \/ ~byKey[key].present THEN 0
  ELSE IF OpenAt(byKey[key], now) THEN OpenCircuitPenalty
  ELSE byKey[key].consecutiveFailures * PenaltyPerFailure

\* recordFailure doubling the cooldown from the first failure on.
FailureEntryFromFirst(prev, opts, now) ==
  LET n == prev.consecutiveFailures + 1
      opened == n >= opts.failureThreshold
      cooldown == IF opened THEN Min(opts.maxCooldownMs, opts.baseCooldownMs * Pow2(n)) ELSE 0
  IN CbEntry(n, now, IF opened THEN now + cooldown ELSE prev.openUntil)

\* recordFailure opening the circuit with no cooldown at all.
FailureEntryNoCooldown(prev, opts, now) ==
  LET n == prev.consecutiveFailures + 1
  IN CbEntry(n, now, IF n >= opts.failureThreshold THEN now ELSE prev.openUntil)

\* circuit-breaker.ts 76-91: the entry recordFailure stores.
FailureEntry(prev, opts, now) ==
  LET n == prev.consecutiveFailures + 1
      opened == n >= opts.failureThreshold
      openExponent == Max(0, n - opts.failureThreshold)
      cooldown == IF opened
                    THEN Min(opts.maxCooldownMs, opts.baseCooldownMs * Pow2(openExponent))
                    ELSE 0
  IN CbEntry(n, now, IF opened THEN now + cooldown ELSE prev.openUntil)

cbRest == <<notRt, cbOpts, rtIn, rtPlan>>

\* circuit-breaker.ts 76-91
RecordFailure(key) ==
  /\ cbStreak[key].n < MaxFails
  /\ cbByKey' = [cbByKey EXCEPT ![key] = FailureEntry(cbByKey[key], cbOpts, cbNow)]
  /\ cbStreak' = [cbStreak EXCEPT ![key] = [n |-> cbStreak[key].n + 1, at |-> cbNow]]
  /\ cbChanged' = TRUE
  /\ UNCHANGED <<cbRest, cbNow>>

\* circuit-breaker.ts 72-74
RecordSuccess(key) ==
  /\ cbByKey' = [cbByKey EXCEPT ![key] = CbEntry(0, Undef, Undef)]
  /\ cbStreak' = [cbStreak EXCEPT ![key] = [n |-> 0, at |-> Undef]]
  /\ cbChanged' = TRUE
  /\ UNCHANGED <<cbRest, cbNow>>

\* Date.now() moves on.
CbTick ==
  /\ cbNow < MaxNow
  /\ cbNow' = cbNow + 1
  /\ UNCHANGED <<cbRest, cbByKey, cbStreak, cbChanged>>

\* ---- ModelRouter.plan
\* A stable sort (Array.prototype.sort) of records by their key field.
RECURSIVE InsertByKey(_, _)
InsertByKey(sorted, x) ==
  IF sorted = <<>> THEN <<x>>
  ELSE IF sorted[Len(sorted)].key <= x.key THEN Append(sorted, x)
  ELSE Append(InsertByKey(SubSeq(sorted, 1, Len(sorted) - 1), x), sorted[Len(sorted)])
RECURSIVE SortByKey(_)
SortByKey(s) ==
  IF s = <<>> THEN <<>>
  ELSE InsertByKey(SortByKey(SubSeq(s, 1, Len(s) - 1)), s[Len(s)])

Rank(r) == IF r = Undef THEN NoRank ELSE r
\* part_010 38-40
CatalogFind(catalog, provider, id) ==
  IF \E k \in 1..Len(catalog) : catalog[k].provider = provider /\ catalog[k].id = id
    THEN catalog[CHOOSE k \in 1..Len(catalog) :
                   /\ catalog[k].provider = provider /\ catalog[k].id = id
                   /\ \A j \in 1..(k - 1) :
                        ~(catalog[j].provider = provider /\ catalog[j].id = id)]
    ELSE NoProfile

\* router.ts 79-82
Candidate(provider, model, profile) ==
  [provider |-> provider, model |-> model, ref |-> Ref(provider, model), profile |-> profile]

\* router.ts 58, 71-74: the available providers in the order availability lists
\* them, the preferred provider moved to the front (allowedProviders,
\* blockedProviders and preferredProviders are not given).
RECURSIVE OrderedProviders(_, _, _)
OrderedProviders(availability, prefProvider, k) ==
  IF k > Len(availability) THEN <<>>
  ELSE LET a == availability[k]
           rest == OrderedProviders(availability, prefProvider, k + 1)
           isPref == \E j \in 1..Len(availability) :
                       /\ availability[j].provider = prefProvider
                       /\ availability[j].available
       IN IF k = 1 /\ isPref
            THEN <<prefProvider>> \o
                 (IF a.available /\ a.provider # prefProvider THEN <<a.provider>> ELSE <<>>)
                 \o rest
          ELSE IF a.available /\ ~(isPref /\ a.provider = prefProvider)
            THEN <<a.provider>> \o rest
          ELSE rest

\* router.ts 89-93: the profiles of one provider, by latencyRank (the class
\* asked for is 'default', which every profile belongs to).
RECURSIVE Ranked(_, _, _)
Ranked(catalog, provider, k) ==
  IF k > Len(catalog) THEN <<>>
  ELSE (IF catalog[k].provider = provider
          THEN <<[key |-> Rank(catalog[k].latencyRank),
                  c |-> Candidate(provider, catalog[k].id, catalog[k])]>>
          ELSE <<>>) \o Ranked(catalog, provider, k + 1)

\* router.ts 85-94
RECURSIVE Candidates(_, _, _, _)
Candidates(catalog, ordered, prefModel, k) ==
  IF k > Len(ordered) THEN <<>>
  ELSE (IF prefModel # NoModel
          THEN <<Candidate(ordered[k], prefModel, CatalogFind(catalog, ordered[k], prefModel))>>
          ELSE LET ranked == SortByKey(Ranked(catalog, ordered[k], 1))
               IN [j \in 1..Len(ranked) |-> ranked[j].c])
       \o Candidates(catalog, ordered, prefModel, k + 1)

\* scoreCandidate leaving the breaker's penalty out.
ScoreByRankOnly(ref, profile, byKey, now) ==
  Rank(profile.latencyRank) * 10 + Rank(profile.costRank)

\* sdk.ts 482-487
ScoreCandidate(ref, profile, byKey, now) ==
  Rank(profile.latencyRank) * 10 + Rank(profile.costRank) + GetPenalty(byKey, ref, now)

\* What a request leaves unset (sdk.ts 368-374): no allowedProviders, no
\* blockedProviders, no minContextTokens; mustStream and requiresTools set.
NotGiven == {0}            \* allowedProviders undefined: a set of no provider
Caps(streaming, tools, maxContextTokens) ==
  [streaming |-> streaming, tools |-> tools, maxContextTokens |-> maxContextTokens]
NoConstraints ==
  [allowed |-> NotGiven, blocked |-> {}, mustStream |-> TRUE, requiresTools |-> TRUE,
   minContextTokens |-> 0]

\* part_010 3-13: a profile that names its capabilities and context size.
ProfileWith(p, caps) ==
  [provider |-> p.provider, id |-> p.id, latencyRank |-> p.latencyRank,
   costRank |-> p.costRank, capabilities |-> caps]

\* router.ts 58-67: availableProviders, as the availability list with the
\* providers that are not allowed or are blocked marked unavailable; an empty
\* allowedProviders or blockedProviders filters nothing.
Admitted(cs, provider) ==
  /\ (cs.allowed # NotGiven /\ cs.allowed # {}) => provider \in cs.allowed
  /\ provider \notin cs.blocked
AvailableProviders(availability, cs) ==
  [k \in 1..Len(availability) |->
     [provider |-> availability[k].provider,
      available |-> availability[k].available /\ Admitted(cs, availability[k].provider)]]

\* router.ts 110-119: a candidate without a profile meets every constraint, and
\* so does a profile that does not say otherwise.
MeetsConstraints(c, cs) ==
  IF "capabilities" \notin DOMAIN c.profile THEN TRUE
  ELSE LET caps == c.profile.capabilities
       IN /\ ~(cs.mustStream /\ ~caps.streaming)
          /\ ~(cs.requiresTools /\ ~caps.tools)
          /\ ~(cs.minContextTokens > 0 /\ caps.maxContextTokens > 0
                /\ caps.maxContextTokens < cs.minContextTokens)
RECURSIVE HardFilter(_, _)
HardFilter(cands, cs) ==
  IF cands = <<>> THEN <<>>
  ELSE (IF MeetsConstraints(Head(cands), cs) THEN <<Head(cands)>> ELSE <<>>)
       \o HardFilter(Tail(cands), cs)

\* router.ts 98-103: as a last resort, every profile of the catalog whose
\* provider is available.
RECURSIVE LastResort(_, _, _)
LastResort(catalog, available, k) ==
  IF k > Len(catalog) THEN <<>>
  ELSE (IF \E j \in 1..Len(available) :
             available[j].provider = catalog[k].provider /\ available[j].available
          THEN <<Candidate(catalog[k].provider, catalog[k].id, catalog[k])>>
          ELSE <<>>) \o LastResort(catalog, available, k + 1)

\* FinalList without the second filter: the last-resort candidates go unchecked.
FinalListUnfiltered(hardFiltered, candidates, cs) ==
  IF hardFiltered # <<>> THEN hardFiltered ELSE candidates

\* router.ts 105
FinalList(hardFiltered, candidates, cs) ==
  HardFilter(IF hardFiltered # <<>> THEN hardFiltered ELSE candidates, cs)

\* router.ts 55-108 as the supervisor calls it (sdk.ts 360-379): the refs of
\* plan.candidates (preferredProviders is not given).
Plan(in, byKey, now) ==
  LET available == AvailableProviders(in.availability, in.cs)
      ordered == OrderedProviders(available, in.provider, 1)
      first == Candidates(in.catalog, ordered, in.model, 1)
      hardFiltered == HardFilter(first, in.cs)
      all == IF hardFiltered = <<>> /\ in.allowFallback
               THEN first \o LastResort(in.catalog, available, 1) ELSE first
      candidates == FinalList(hardFiltered, all, in.cs)
      keyed == [j \in 1..Len(candidates) |->
                  [key |-> ScoreCandidate(candidates[j].ref, candidates[j].profile, byKey, now),
                   c |-> candidates[j]]]
      scored == SortByKey(keyed)
      refs == [j \in 1..Len(scored) |-> scored[j].c.ref]
  IN IF in.allowFallback THEN refs ELSE SubSeq(refs, 1, Min(1, Len(refs)))

NoPlan == [done |-> FALSE]

\* sdk.ts 360-379
DoPlan ==
  /\ rtPlan' = [done |-> TRUE, at |-> cbNow,
                prevAt |-> IF rtPlan.done /\ ~cbChanged THEN rtPlan.at ELSE Undef,
                refs |-> Plan(rtIn, cbByKey, cbNow)]
  /\ cbChanged' = FALSE
  /\ UNCHANGED <<notRt, cbOpts, cbByKey, cbNow, cbStreak, rtIn>>

Availabilities ==
  {<<[provider |-> 1, available |-> a1], [provider |-> 2, available |-> a2]>> :
     a1 \in BOOLEAN, a2 \in BOOLEAN}
RtInputs ==
  [availability : Availabilities, provider : {NoModel} \cup Providers,
   model : {NoModel, 1}, allowFallback : BOOLEAN, cs : {NoConstraints},
   catalog : {Catalog}]

\* Requests with hard constraints, over catalogs of three models whose
\* profiles name their capabilities, each lacking at most one thing; the
\* second provider has no model 2.
MinContexts == {0, 2}
CapsSet ==
  {Caps(TRUE, TRUE, Undef), Caps(FALSE, TRUE, Undef), Caps(TRUE, FALSE, Undef),
   Caps(TRUE, TRUE, 1)}
HardCatalogs ==
  {<<ProfileWith(Catalog[1], c1), ProfileWith(Catalog[2], c2),
     ProfileWith(Profile(1, 2, 1, Undef), c3)>> : c1 \in CapsSet, c2 \in CapsSet, c3 \in CapsSet}
ConstraintSets ==
  [allowed : {NotGiven} \cup SUBSET Providers, blocked : SUBSET Providers,
   mustStream : BOOLEAN, requiresTools : BOOLEAN, minContextTokens : MinContexts]
RtHardInputs ==
  [availability : Availabilities, provider : {NoModel, 2},
   model : {NoModel, 1, 2}, allowFallback : BOOLEAN, cs : ConstraintSets,
   catalog : HardCatalogs]

\* An empty breaker.
CbEmpty ==
  /\ cbByKey = [key \in Refs |-> NoEntry]
  /\ cbStreak = [key \in Refs |-> [n |-> 0, at |-> Undef]]
  /\ cbNow = 0 /\ cbChanged = FALSE /\ rtPlan = NoPlan

\* circuit-breaker.ts 39-46: the options the class defaults to, in units of
\* baseCooldownMs, with a threshold of one failure.
RouteOpts == [failureThreshold |-> 1, baseCooldownMs |-> 1, maxCooldownMs |-> 2]
\* The breaker and router of a supervisor that plans nothing: no ref has an
\* entry yet.
RtIdle ==
  /\ cbByKey = <<>> /\ cbStreak = <<>>
  /\ cbNow = 0 /\ cbChanged = FALSE /\ rtPlan = NoPlan
  /\ cbOpts = RouteOpts
  /\ rtIn = [availability |-> <<>>, provider |-> NoModel, model |-> NoModel,
             allowFallback |-> TRUE]

\* -------------------------------------------------------- patch tool
\* fs_apply_patch applying the hunks of one file of a patch (fs-tools 116-141)
\* with applyHunk (unified-diff.ts 83-125).  A text is the sequence of its
\* lines; the hunks of the patch are drawn as execute comes to them.
MaxOrig == 2
MaxHunkLines == 2
MaxHunks == 2

Texts == {"", "a"}
NoFile == <<>>                      \* readFile throws, stat returns null
SeqsUpTo(S, n) == UNION {[1..k -> S] : k \in 0..n}
\* unified-diff.ts 7-14
HunkLine(kind, text) == [kind |-> kind, text |-> text]
HunkLines == [kind : {"context", "add", "del"}, text : Texts]
Hunks == [oldStart : 0..(MaxOrig + 1), lines : SeqsUpTo(HunkLines, MaxHunkLines)]

\* text.split('\n') of out.join('\n'): no line at all joins to the empty
\* string, which splits into one empty line.
SplitJoin(out) == IF out = <<>> THEN <<"">> ELSE out

\* unified-diff.ts 87-109: tryApplyAt from hunk line k on, i the index into
\* origLines (0-based), out the lines produced so far.
RECURSIVE TryFrom(_, _, _, _, _)
TryFrom(origLines, lines, k, i, out) ==
  IF k > Len(lines) THEN [ok |-> TRUE, out |-> out \o SubSeq(origLines, i + 1, Len(origLines))]
  ELSE IF lines[k].kind = "add"
    THEN TryFrom(origLines, lines, k + 1, i, Append(out, lines[k].text))
  ELSE IF i >= Len(origLines) \/ origLines[i + 1] # lines[k].text
    THEN [ok |-> FALSE, out |-> <<>>]
  ELSE IF lines[k].kind = "context"
    THEN TryFrom(origLines, lines, k + 1, i + 1, Append(out, origLines[i + 1]))
  ELSE TryFrom(origLines, lines, k + 1, i + 1, out)
TryApplyAt(origLines, lines, idx) ==
  TryFrom(origLines, lines, 1, idx, SubSeq(origLines, 1, Min(idx, Len(origLines))))

IsContext(hl) == hl.kind = "context"
\* unified-diff.ts 113-115: the index the second attempt is made at, -1 when
\* there is none; an empty first context line is falsy.
FoundIndex(origLines, lines) ==
  LET ctx == SelectSeq(lines, IsContext)
  IN IF ctx = <<>> \/ ctx[1].text = "" THEN -1
     ELSE IF \E i \in 1..Len(origLines) : origLines[i] = ctx[1].text
       THEN (CHOOSE i \in 1..Len(origLines) :
               /\ origLines[i] = ctx[1].text
               /\ \A j \in 1..(i - 1) : origLines[j] # ctx[1].text) - 1
     ELSE -1

\* unified-diff.ts 83-125: whether applyHunk returned, the text it returned,
\* and the indices it called tryApplyAt with.
ApplyHunk(origLines, hunk) ==
  LET expectedIdx == Max(0, hunk.oldStart - 1)
      first == TryApplyAt(origLines, hunk.lines, expectedIdx)
      found == FoundIndex(origLines, hunk.lines)
      second == TryApplyAt(origLines, hunk.lines, found)
  IN IF first.ok
       THEN [ok |-> TRUE, text |-> SplitJoin(first.out), tried |-> <<expectedIdx>>]
     ELSE IF found < 0
       THEN [ok |-> FALSE, text |-> origLines, tried |-> <<expectedIdx>>]
     ELSE [ok |-> second.ok,
           text |-> IF second.ok THEN SplitJoin(second.out) ELSE origLines,
           tried |-> <<expectedIdx, found>>]

NoCall == [called |-> FALSE]
pfRest == <<notPf, pfInc, pfTotal>>

\* fs-tools 110-124
PatchStart(incremental, total) ==
  /\ pfPc = "idle"
  /\ pfInc' = incremental /\ pfTotal' = total
  /\ pfText' = IF pfFile = NoFile THEN <<"">> ELSE pfFile
  /\ pfHi' = 0
  /\ pfPc' = "hunks"
  /\ UNCHANGED <<notPf, pfFile, pfLast>>

\* fs-tools 125-133, and 140-143 after the last incremental write
PatchHunk(h) ==
  /\ pfPc = "hunks" /\ pfHi < pfTotal
  /\ LET applied == ApplyHunk(pfText, h)
     IN /\ pfLast' = [called |-> TRUE, hunk |-> h, before |-> pfText, ok |-> applied.ok,
                      tried |-> applied.tried, wrote |-> applied.ok /\ pfInc]
        /\ IF applied.ok
             THEN /\ pfText' = applied.text
                  /\ pfHi' = pfHi + 1
                  /\ pfFile' = IF pfInc THEN applied.text ELSE pfFile
                  /\ pfPc' = IF pfInc /\ pfHi + 1 = pfTotal THEN "done" ELSE "hunks"
             ELSE /\ pfPc' = "raised"
                  /\ UNCHANGED <<pfText, pfHi, pfFile>>
  /\ UNCHANGED pfRest

\* fs-tools 135-143
PatchFinish ==
  /\ pfPc = "hunks" /\ pfHi = pfTotal /\ ~pfInc
  /\ pfFile' = pfText
  /\ pfPc' = "done"
  /\ UNCHANGED <<pfRest, pfText, pfHi, pfLast>>

\* The tool before it is called, on a file of at most MaxOrig lines.
PfFresh ==
  /\ pfText = <<>> /\ pfInc = FALSE /\ pfTotal = 0 /\ pfHi = 0
  /\ pfPc = "idle" /\ pfLast = NoCall
PfIdle == pfFile = NoFile /\ PfFresh

\* --------------------------------------------------------- tool names
\* applyToolNamePolicy (tool-name-policy 32-119) on the tools of a run, and
\* the names the SDK caller then sees (sdk.ts 443-446, 568-589;
\* tool-executor.ts 44-63).  A name is the sequence of its characters; the
\* limit of 64 characters is scaled to NameLimit.
MaxTools == 3
NameLimit == 5

\* tool-name-policy 26: the characters TOOL_NAME_RE accepts, among those used.
ValidChars == {"a", "t", "o", "l", "0", "1", "2", "3", "4", "5", "6", "7", "8", "9", "_", "-"}
Space == " "
Slice(name, n) == SubSeq(name, 1, Min(n, Len(name)))
\* tool-name-policy 28-30
IsValidToolName(name) ==
  /\ Len(name) >= 1 /\ Len(name) <= NameLimit
  /\ \A k \in 1..Len(name) : name[k] \in ValidChars

RECURSIVE DropLeading(_, _)
DropLeading(name, c) ==
  IF name # <<>> /\ name[1] = c THEN DropLeading(Tail(name), c) ELSE name
RECURSIVE DropTrailing(_, _)
DropTrailing(name, c) ==
  IF name # <<>> /\ name[Len(name)] = c
    THEN DropTrailing(SubSeq(name, 1, Len(name) - 1), c) ELSE name
RECURSIVE DropInvalid(_)
DropInvalid(name) ==
  IF name # <<>> /\ name[1] \notin ValidChars THEN DropInvalid(Tail(name)) ELSE name
\* replace(/[^A-Za-z0-9_-]+/g, '_')
RECURSIVE ReplaceInvalid(_)
ReplaceInvalid(name) ==
  IF name = <<>> THEN <<>>
  ELSE IF name[1] \notin ValidChars THEN <<"_">> \o ReplaceInvalid(DropInvalid(name))
  ELSE <<name[1]>> \o ReplaceInvalid(Tail(name))

ToolWord == <<"t", "o", "o", "l">>
\* tool-name-policy 125-130
SanitizeToolName(name) ==
  LET trimmed == DropTrailing(DropLeading(name, Space), Space)
      replaced == DropTrailing(DropLeading(ReplaceInvalid(trimmed), "_"), "_")
      shortened == Slice(replaced, NameLimit)
  IN IF shortened = <<>> THEN ToolWord ELSE shortened

Digit(i) == <<"0", "1", "2", "3", "4", "5", "6", "7", "8", "9">>[i + 1]
\* tool-name-policy 46-47, for the suffixes of one digit
Suffixed(candidate, i) == Append(Append(Slice(candidate, Max(1, NameLimit - 2)), "_"), Digit(i))

\* nextUnique handing out the candidate whether it is taken or not.
NextUniqueUnchecked(base, used) ==
  IF Slice(base, NameLimit) = <<>> THEN ToolWord ELSE Slice(base, NameLimit)

\* tool-name-policy 41-52: fewer than eight names are in use, so the loop
\* returns with a suffix of one digit.
NextUnique(base, used) ==
  LET candidate == IF Slice(base, NameLimit) = <<>> THEN ToolWord ELSE Slice(base, NameLimit)
  IN IF candidate \notin used THEN candidate
     ELSE Suffixed(candidate, CHOOSE i \in 2..9 :
                                /\ Suffixed(candidate, i) \notin used
                                /\ \A j \in 2..(i - 1) : Suffixed(candidate, j) \in used)

\* opts.toolNameTransform, when given: an alias that keeps the first character.
Transform(given, name) == IF given THEN Slice(name, 1) ELSE name

\* tool-name-policy 54-75: the provider-facing names, tool by tool.
RECURSIVE ProviderNames(_, _, _, _)
ProviderNames(policy, given, tools, k) ==
  IF k = 0 THEN <<>>
  ELSE LET before == ProviderNames(policy, given, tools, k - 1)
           used == {before[j] : j \in 1..Len(before)}
           proposedName == Transform(given, tools[k])
       IN Append(before, IF policy = "sanitize"
                           THEN NextUnique(SanitizeToolName(proposedName), used)
                           ELSE proposedName)

\* A Map as the sequence of its entries <<key, value>>, in insertion order.
TnHas(m, key) == \E k \in 1..Len(m) : m[k][1] = key
TnGet(m, key) == m[CHOOSE k \in 1..Len(m) : m[k][1] = key][2]
TnSet(m, key, value) ==
  IF TnHas(m, key)
    THEN [k \in 1..Len(m) |-> IF m[k][1] = key THEN <<key, value>> ELSE m[k]]
    ELSE Append(m, <<key, value>>)
\* tool-name-policy 70: providerByOriginal after the first k tools.
RECURSIVE ProviderByOriginal(_, _, _)
ProviderByOriginal(tools, names, k) ==
  IF k = 0 THEN <<>> ELSE TnSet(ProviderByOriginal(tools, names, k - 1), tools[k], names[k])
\* tool-name-policy 71: originalByProvider after the first k tools.
RECURSIVE OriginalByProvider(_, _, _)
OriginalByProvider(tools, names, k) ==
  IF k = 0 THEN <<>> ELSE TnSet(OriginalByProvider(tools, names, k - 1), names[k], tools[k])

\* tool-name-policy 78-116: whether the strict validation throws.  seen groups
\* the entries of providerByOriginal by provider name.
StrictRejects(tools, names) ==
  LET byOriginal == ProviderByOriginal(tools, names, Len(tools))
      dupes == \E a \in 1..Len(byOriginal), b \in 1..Len(byOriginal) :
                 a # b /\ byOriginal[a][2] = byOriginal[b][2]
      invalid == \E k \in 1..Len(names) : ~IsValidToolName(names[k])
  IN dupes \/ invalid

\* tool-name-policy 121-123
RemapToolNameToOriginal(m, providerName) ==
  IF TnHas(m, providerName) THEN TnGet(m, providerName) ELSE providerName

NoName == [type |-> "none"]
tnRest == <<notTn, tnPolicy, tnTransform, tnTools>>

\* sdk.ts 340-351, tool-name-policy 32-119
ApplyToolNamePolicy ==
  /\ tnPc = "init"
  /\ LET names == ProviderNames(tnPolicy, tnTransform, tnTools, Len(tnTools))
     IN IF tnPolicy = "strict" /\ StrictRejects(tnTools, names)
          THEN tnPc' = "refused" /\ UNCHANGED <<tnNames, tnMap>>
          ELSE /\ tnPc' = "ready"
               /\ tnNames' = names
               /\ tnMap' = OriginalByProvider(tnTools, names, Len(tnTools))
  /\ UNCHANGED <<tnRest, tnLast>>

\* What an engine reports about tool i, under the name the provider knows it by.
EngineTypes == {"tool_call", "tool_result", "step_finish", "result"}
\* sdk.ts 443-446 with 568-589: an engine event, or the final result, naming
\* tool i, after remapEventToolNames or remapResultToolNames.
Remapped(type, i) ==
  /\ tnPc = "ready" /\ i <= Len(tnTools)
  /\ tnLast' = [type |-> type, tool |-> i,
                toolName |-> RemapToolNameToOriginal(tnMap, tnNames[i])]
  /\ UNCHANGED <<tnRest, tnPc, tnNames, tnMap>>

\* tool-executor.ts 44-60: the policy asks about a call of tool i; the executor,
\* built on the tools applyToolNamePolicy returned, emits the request on the
\* run's bus itself.
ApprovalRequested(i) ==
  /\ tnPc = "ready" /\ i <= Len(tnTools)
  /\ tnLast' = [type |-> "tool_approval_request", tool |-> i, toolName |-> tnNames[i]]
  /\ UNCHANGED <<tnRest, tnPc, tnNames, tnMap>>

\* The names tools are given in the runs explored.
ToolNames ==
  { <<"a", "!", "a">>, <<"a", "_", "a">>, <<"a">>, <<" ", "a">>, <<"a", "!">>, <<>>,
    <<"_">>, <<"a", "_", "2">>, <<"a", "a", "a", "a", "a">>,
    <<"a", "a", "a", "a", "a", "a">> }
TnFresh == tnPc = "init" /\ tnNames = <<>> /\ tnMap = <<>> /\ tnLast = NoName
\* A run without tools, refused or not as nameOk tells.
TnIdle == tnPolicy = "strict" /\ tnTransform = FALSE /\ tnTools = <<>> /\ TnFresh

\* ------------------------------------------- callers of a RunController
\* Tasks calling waitIfPaused, guardToolExecution and requestApproval on one
\* controller, next to the control calls of the user (run-controller.ts).
MaxCallers == 2
MaxIds == 2

Callers == 1..MaxCallers
\* The call ids: each request is made with an id of its own (uuid, or the
\* provider's tool call id).
Ids == 1..MaxIds

ctRest == <<planLen, nameOk, recording, lruVars, wsVars, rtVars, pfVars, tnVars, bqVars, svVars, apVars,
            exVars, sdkVars, eng, inner, innerClosed, emittedCalls, outer, histVars>>

\* guardToolExecution without its tests of the signal.
GuardAnswerUnchecked(ab) == "passed"

\* run-controller.ts 72, 74: what guardToolExecution comes to when it is not,
\* or no longer, held by a pause.
GuardAnswer(ab) == IF ab THEN "ToolCancelled" ELSE "passed"

\* run-controller.ts 51-54
WaitIfPaused(c) ==
  /\ ctCall[c] = "idle"
  /\ IF paused
       THEN /\ pauseWaiters' = Append(pauseWaiters, c)
            /\ ctCall' = [ctCall EXCEPT ![c] = "waiting"]
       ELSE /\ ctCall' = [ctCall EXCEPT ![c] = "returned"]
            /\ UNCHANGED pauseWaiters
  /\ UNCHANGED <<ctRest, ctlVars>>

\* run-controller.ts 71-75
GuardToolExecution(c) ==
  /\ ctCall[c] = "idle"
  /\ IF ~aborted /\ paused
       THEN /\ pauseWaiters' = Append(pauseWaiters, c)
            /\ ctCall' = [ctCall EXCEPT ![c] = "guardWait"]
       ELSE /\ ctCall' = [ctCall EXCEPT ![c] = GuardAnswer(aborted)]
            /\ UNCHANGED pauseWaiters
  /\ UNCHANGED <<ctRest, ctlVars>>

\* run-controller.ts 53, 74: the promise of a parked caller was resolved by
\* resume(); the caller goes on.
Woken(c) ==
  /\ ctCall[c] \in {"waiting", "guardWait"}
  /\ c \notin {pauseWaiters[k] : k \in 1..Len(pauseWaiters)}
  /\ ctCall' = [ctCall EXCEPT ![c] = IF @ = "waiting" THEN "returned"
                                     ELSE GuardAnswer(aborted)]
  /\ UNCHANGED <<ctRest, ctlVars, pauseWaiters>>

\* The caller has its answer and may call again.
CallAgain(c) ==
  /\ ctCall[c] \in {"returned", "passed", "ToolCancelled"}
  /\ ctCall' = [ctCall EXCEPT ![c] = "idle"]
  /\ UNCHANGED <<ctRest, ctlVars, pauseWaiters>>

\* run-controller.ts 56-61, for a call id not used before.
RequestApproval(id) ==
  /\ id \notin approvals /\ \A allowed \in BOOLEAN : <<id, allowed>> \notin approvalRes
  /\ IF aborted
       THEN approvalRes' = approvalRes \cup {<<id, FALSE>>} /\ UNCHANGED approvals
       ELSE approvals' = approvals \cup {id} /\ UNCHANGED approvalRes
  /\ UNCHANGED <<ctRest, aborted, paused, stopRequested, pauseWaiters, ctCall>>

CtFresh == ctCall = [c \in Callers |-> "idle"]
\* No task but the engine calls the controller of a run.
CtIdle == ctCall = <<>>

\* ------------------------------------------------------------- EventBus
\* One EventBus (event-bus 379-401) over its AsyncQueue (part_014), with hooks
\* subscribed to it and consumers iterating it with for await.  The n-th
\* emit() emits the event n.
MaxEmits == 3
MaxConsumers == 2
MaxHooks == 1

Hooks == 1..MaxHooks
NotClosed == -1         \* the queue has not been closed

\* AsyncQueue.next answering done as soon as the queue is closed.
QueueNextClosedFirst(buf, closed) ==
  IF closed THEN "done" ELSE IF Len(buf) > 0 THEN "value" ELSE "wait"

\* part_014 23-30: what next() does.
QueueNext(buf, closed) ==
  IF Len(buf) > 0 THEN "value" ELSE IF closed THEN "done" ELSE "wait"

\* event-bus 385: the hooks emit(ev) calls, in the order of the Set.
HookCalls(hooks, ev) == [k \in 1..Len(hooks) |-> <<hooks[k], ev>>]

bqRest == <<notBq>>

\* event-bus 383-387 and part_014 7-12
Emit ==
  /\ bqEmitted < MaxEmits
  /\ LET ev == bqEmitted + 1
     IN /\ bqEmitted' = ev
        /\ bqHooked' = bqHooked \o HookCalls(bqHooks, ev)
        /\ IF bqClosed
             THEN UNCHANGED <<bqBuf, bqWaiters, bqPc, bqSeen>>
             ELSE IF bqWaiters # <<>>
               THEN LET w == Head(bqWaiters)
                    IN /\ bqWaiters' = Tail(bqWaiters)
                       /\ bqSeen' = [bqSeen EXCEPT ![w] = Append(@, ev)]
                       /\ bqPc' = [bqPc EXCEPT ![w] = "idle"]
                       /\ UNCHANGED bqBuf
               ELSE /\ bqBuf' = Append(bqBuf, ev)
                    /\ UNCHANGED <<bqWaiters, bqPc, bqSeen>>
  /\ UNCHANGED <<bqRest, bqClosed, bqHooks, bqAtClose>>

\* part_014 14-21: what close() makes of the queue.
QueueClose ==
  IF bqClosed
    THEN UNCHANGED <<bqClosed, bqWaiters, bqPc, bqAtClose>>
    ELSE /\ bqClosed' = TRUE
         /\ bqAtClose' = bqEmitted
         /\ bqWaiters' = <<>>
         /\ bqPc' = [c \in DOMAIN bqPc |->
                       IF c \in {bqWaiters[k] : k \in 1..Len(bqWaiters)} THEN "done"
                       ELSE bqPc[c]]

\* event-bus 394-396
Close ==
  /\ ~bqClosed
  /\ QueueClose
  /\ UNCHANGED <<bqRest, bqBuf, bqHooks, bqSeen, bqHooked, bqEmitted>>

\* event-bus 389-392
Subscribe(h) ==
  /\ h \notin {bqHooks[k] : k \in 1..Len(bqHooks)}
  /\ bqHooks' = Append(bqHooks, h)
  /\ UNCHANGED <<bqRest, bqBuf, bqWaiters, bqClosed, bqPc, bqSeen, bqHooked, bqEmitted,
                 bqAtClose>>

\* part_014 23-30, 32-34: a consumer's for await asks for its next event.
ConsumerNext(c) ==
  /\ c \in DOMAIN bqPc /\ bqPc[c] = "idle"
  /\ LET r == QueueNext(bqBuf, bqClosed)
     IN /\ bqBuf' = IF r = "value" THEN Tail(bqBuf) ELSE bqBuf
        /\ bqSeen' = IF r = "value" THEN [bqSeen EXCEPT ![c] = Append(@, Head(bqBuf))]
                      ELSE bqSeen
        /\ bqWaiters' = IF r = "wait" THEN Append(bqWaiters, c) ELSE bqWaiters
        /\ bqPc' = [bqPc EXCEPT ![c] = IF r = "value" THEN "idle"
                                       ELSE IF r = "done" THEN "done" ELSE "waiting"]
  /\ UNCHANGED <<bqRest, bqClosed, bqHooks, bqHooked, bqEmitted, bqAtClose>>

\* part_014 35-38: a consumer leaves its loop (break, return, a failure in the
\* body) after an event: the iterator's return() closes the queue.
ConsumerReturn(c) ==
  /\ c \in DOMAIN bqPc /\ bqPc[c] = "idle" /\ bqSeen[c] # <<>>
  /\ IF bqClosed
       THEN /\ bqPc' = [bqPc EXCEPT ![c] = "returned"]
            /\ UNCHANGED <<bqClosed, bqWaiters, bqAtClose>>
       ELSE /\ bqClosed' = TRUE
            /\ bqAtClose' = bqEmitted
            /\ bqWaiters' = <<>>
            /\ bqPc' = [d \in DOMAIN bqPc |->
                          IF d = c THEN "returned"
                          ELSE IF d \in {bqWaiters[k] : k \in 1..Len(bqWaiters)} THEN "done"
                          ELSE bqPc[d]]
  /\ UNCHANGED <<bqRest, bqBuf, bqHooks, bqSeen, bqHooked, bqEmitted>>

\* A new bus with n consumers about to iterate it.
BqFresh(n) ==
  /\ bqBuf = <<>> /\ bqWaiters = <<>> /\ bqClosed = FALSE /\ bqHooks = <<>>
  /\ bqPc = [c \in 1..n |-> "idle"] /\ bqSeen = [c \in 1..n |-> <<>>]
  /\ bqHooked = <<>> /\ bqEmitted = 0 /\ bqAtClose = NotClosed
BqIdle == BqFresh(0)

\* ---------------------------------------------------- executeFromProvider
\* One call of ToolExecutor.executeFromProvider (tool-executor.ts 44-77) on a
\* controller that is not paused, by what it meets on its way.
ExInputs ==
  [id : Ids, known : BOOLEAN, aborted : BOOLEAN, decision : Decisions,
   allowed : BOOLEAN, settles : Settlements]
NoOutcome == [thrown |-> "pending", id |-> 0, isError |-> FALSE, result |-> ""]

\* tool-executor.ts 44-77
ExecuteFromProvider(in) ==
  IF ~in.known THEN Raised("ToolDenied")
  ELSE IF in.aborted THEN Raised("ToolCancelled")
  ELSE IF in.decision = "deny" THEN Raised("ToolDenied")
  ELSE IF in.decision = "ask" /\ ~in.allowed THEN Raised("ToolDenied")
  ELSE ToolSettled(in.id, in.settles)

Execute ==
  /\ exOut = NoOutcome
  /\ exOut' = ExecuteFromProvider(exIn)
  /\ UNCHANGED <<notEx, exIn>>

ExIdle == exIn = 0 /\ exOut = 0

\* ------------------------------------------- saveCircuitBreakerState
\* The saves of the breaker state that the runs of one SDK request (sdk.ts
\* 452, 458), chained on circuitBreakerSaveQueue (sdk.ts 158, 518-525).
MaxSaves == 3

\* circuit-breaker.ts 93-97: the entries are never changed in place
\* (recordSuccess and recordFailure replace them), so a snapshot stays as taken.
Snapshot(byKey) == [version |-> 1, entries |-> byKey]

NoSnapshot == [version |-> 0]
SaveSettled(sv) == sv.st \in {"done", "failed"}

\* QueueTurn without the chain: store.set is called as soon as it is asked for.
QueueTurnUnchained(saves, k) == saves[k].st = "queued"

\* sdk.ts 523: the callbacks of save k are attached to the promise that the
\* queue was when the save was requested, which settles with the store.set of
\* save k - 1 (the first is attached to Promise.resolve(), sdk.ts 158).
QueueTurn(saves, k) ==
  saves[k].st = "queued" /\ (IF k = 1 THEN TRUE ELSE SaveSettled(saves[k - 1]))

\* sdk.ts 518-523: a run asks for a save; the snapshot is taken at once.
SaveRequest ==
  /\ Len(svSaves) < MaxSaves
  /\ svSaves' = Append(svSaves, [snap |-> Snapshot(cbByKey), st |-> "queued"])
  /\ UNCHANGED <<notSv, rtVars, svStore>>

\* sdk.ts 523: the queue reaches save k, either callback calls store.set.
SaveStart(k) ==
  /\ k <= Len(svSaves)
  /\ QueueTurn(svSaves, k)
  /\ svSaves' = [svSaves EXCEPT ![k].st = "running"]
  /\ UNCHANGED <<notSv, rtVars, svStore>>

\* store.set of save k settles: the value is stored, or the store failed.
SaveSettle(k, ok) ==
  /\ k <= Len(svSaves)
  /\ svSaves[k].st = "running"
  /\ svSaves' = [svSaves EXCEPT ![k].st = IF ok THEN "done" ELSE "failed"]
  /\ svStore' = IF ok THEN svSaves[k].snap ELSE svStore
  /\ UNCHANGED <<notSv, rtVars>>

SvFresh == svSaves = <<>> /\ svStore = NoSnapshot
SvIdle == svSaves = <<>> /\ svStore = 0

\* No approveToolCall has been made.
ApIdle == apCalls = {}

UnitIdle == CtIdle /\ BqIdle /\ ExIdle /\ SvIdle /\ ApIdle

\* --------------------------------------------------------- specification
\* The state when run() returns (sdk.ts 264-323): runWithFailover has run up to
\* its first await, so applyToolNamePolicy has already returned or thrown.
RunInit ==
  /\ planLen \in 0..MaxCandidates
  /\ nameOk \in BOOLEAN
  /\ sdkPc = IF nameOk THEN "load" ELSE "done"
  /\ result = IF nameOk THEN Settled("pending", "none") ELSE Settled("rejected", "tool_names")
  /\ attempt = 0
  /\ outer = <<>> /\ outerClosed = FALSE
  /\ aborted = FALSE /\ paused = FALSE /\ stopRequested = FALSE
  /\ pauseWaiters = <<>> /\ approvals = {} /\ approvalRes = {}
  /\ eng = EngIdle
  /\ inner = [a \in Attempts |-> <<>>]
  /\ innerClosed = [a \in Attempts |-> FALSE]
  /\ fwd = [a \in Attempts |-> FALSE]
  /\ userOps = 0 /\ emittedCalls = 0 /\ cancelledRunning = FALSE

Init == RunInit /\ recording = TRUE /\ LruIdle /\ WsIdle /\ RtIdle /\ PfIdle /\ TnIdle /\ UnitIdle

\* The same run without the history of delivered events.
InitCtl == RunInit /\ recording = FALSE /\ LruIdle /\ WsIdle /\ RtIdle /\ PfIdle /\ TnIdle /\ UnitIdle

Next ==
  \/ SdkPlan \/ SdkResult \/ SdkFwdDone \/ SdkReturn \/ SdkCatchSaved \/ SdkRolledBack
  \/ \E a \in Attempts : Forward(a)
  \/ EngClientOk \/ EngClientFail \/ EngChatOk \/ EngProviderFail
  \/ \E part \in Parts, kind \in CallKinds : EngPart(part, kind)
  \/ \E kind \in CallKinds : EngStreamResumed(kind) \/ EngStreamEnd(kind) \/ EngToolNext(kind)
  \/ EngGuardResumed
  \/ \E d \in Decisions : EngDecide(d)
  \/ EngRequestApproval \/ EngApprovalDone
  \/ \E o \in Settlements, kind \in CallKinds : EngExecDone(o, kind)
  \/ \E viaRun \in BOOLEAN : Pause(viaRun) \/ Resume(viaRun) \/ Stop(viaRun) \/ Cancel(viaRun)
  \/ \E id \in approvals, allowed \in BOOLEAN : ResolveApproval(id, allowed)

Spec == Init /\ [][Next]_vars

SpecCtl == InitCtl /\ [][Next]_vars

\* The supervisor's continuations (promise reactions of sdk.ts 358-476), the
\* forwarders' loops (sdk.ts 442-444) and the settling of createClient's dynamic
\* import (ollama-engine.ts 32, 169-175) are not held back for ever.
SdkStep == SdkPlan \/ SdkResult \/ SdkFwdDone \/ SdkReturn \/ SdkCatchSaved \/ SdkRolledBack
ForwardStep == \E a \in Attempts : Forward(a)
ClientStep == EngClientOk \/ EngClientFail

\* The run under fair scheduling of the supervisor, the forwarders and the
\* client creation; the provider, the tools and the user are under no obligation.
SpecCtlFair ==
  /\ InitCtl /\ [][Next]_vars
  /\ WF_vars(SdkStep) /\ WF_vars(ForwardStep) /\ WF_vars(ClientStep)

\* ---- the supervisor with its circuit breaker
\* plan.candidates[a - 1].ref of a plan that lists the catalog in order.
CandidateRef(a) ==
  LET k == ((a - 1) % Len(Catalog)) + 1
  IN Ref(Catalog[k].provider, Catalog[k].id)

\* sdk.ts 457: this.circuitBreaker.recordFailure(c.ref), at Date.now().
BreakerFailure(key) ==
  /\ cbByKey' = [cbByKey EXCEPT ![key] = FailureEntry(cbByKey[key], cbOpts, cbNow)]
  /\ cbStreak' = [cbStreak EXCEPT ![key] = [n |-> cbStreak[key].n + 1, at |-> cbNow]]
  /\ cbChanged' = TRUE
  /\ UNCHANGED <<cbOpts, cbNow, rtIn, rtPlan>>

\* sdk.ts 451: this.circuitBreaker.recordSuccess(c.ref).
BreakerSuccess(key) ==
  /\ cbByKey' = [cbByKey EXCEPT ![key] = CbEntry(0, Undef, Undef)]
  /\ cbStreak' = [cbStreak EXCEPT ![key] = [n |-> 0, at |-> Undef]]
  /\ cbChanged' = TRUE
  /\ UNCHANGED <<cbOpts, cbNow, rtIn, rtPlan>>

notRunRt == <<lruVars, wsVars, pfVars, tnVars, unitVars>>

\* sdk.ts 446, 455-457: the engine's result has settled; a rejection enters
\* the catch block, whose second statement records a failure of the candidate.
SdkResultRecorded ==
  /\ SdkResultRun
  /\ IF eng.res = "rejected" THEN BreakerFailure(CandidateRef(attempt)) ELSE UNCHANGED rtVars
  /\ UNCHANGED notRunRt

\* sdk.ts 426, 455-457: engine.run rejected; the same catch block.
EngClientFailRecorded ==
  /\ EngClientFailRun
  /\ BreakerFailure(CandidateRef(attempt))
  /\ UNCHANGED notRunRt

\* sdk.ts 447-451: the forwarder has drained, the journal is committed and
\* the candidate's success recorded.
SdkFwdDoneRecorded == SdkFwdDoneRun /\ BreakerSuccess(CandidateRef(attempt))

\* A run whose supervisor starts with an empty breaker of the default options.
InitRecorded ==
  /\ RunInit /\ recording = FALSE
  /\ LruIdle /\ WsIdle /\ PfIdle /\ TnIdle /\ UnitIdle
  /\ CbEmpty /\ cbOpts = RouteOpts
  /\ rtIn = [availability |-> <<>>, provider |-> NoModel, model |-> NoModel,
             allowFallback |-> TRUE]

NextRecorded ==
  \/ SdkPlan \/ SdkResultRecorded \/ SdkFwdDoneRecorded \/ SdkReturn \/ SdkCatchSaved
  \/ SdkRolledBack
  \/ \E a \in Attempts : Forward(a)
  \/ EngClientOk \/ EngClientFailRecorded \/ EngChatOk \/ EngProviderFail
  \/ \E part \in Parts, kind \in CallKinds : EngPart(part, kind)
  \/ \E kind \in CallKinds : EngStreamResumed(kind) \/ EngStreamEnd(kind) \/ EngToolNext(kind)
  \/ EngGuardResumed
  \/ \E d \in Decisions : EngDecide(d)
  \/ EngRequestApproval \/ EngApprovalDone
  \/ \E o \in Settlements, kind \in CallKinds : EngExecDone(o, kind)
  \/ \E viaRun \in BOOLEAN : Pause(viaRun) \/ Resume(viaRun) \/ Stop(viaRun) \/ Cancel(viaRun)
  \/ \E id \in approvals, allowed \in BOOLEAN : ResolveApproval(id, allowed)
  \/ CbTick

SpecRecorded == InitRecorded /\ [][NextRecorded]_vars

\* ---- the run with approvals given through approveToolCall
\* sdk.ts 274, 311 with run-controller.ts 63-69: the first approveToolCall(id,
\* allowed) made for the request the engine's executor has emitted.  While the
\* executor is still inside emit (tool-executor.ts 56-60) the caller is a hook
\* of the bus, which emit calls before it returns (event-bus 383-387, sdk.ts
\* 278); afterwards it is a hook's later continuation or the consumer of the
\* iterator.  resolveApproval returns false, and does nothing, when the id has
\* no pending approval.
ApproveToolCall(id, allowed) ==
  /\ eng.pc \in {"askEmitted", "approvalWait"} /\ eng.id = id
  /\ \A c \in apCalls : c[1] # id
  /\ apCalls' = apCalls \cup {<<id, allowed>>}
  /\ IF id \in approvals
       THEN /\ approvalRes' = approvalRes \cup {<<id, allowed>>}
            /\ approvals' = approvals \ {id}
       ELSE UNCHANGED <<approvals, approvalRes>>
  /\ UNCHANGED <<runCfg, lruVars, wsVars, rtVars, pfVars, tnVars, ctVars, bqVars, exVars,
                 svVars, sdkVars, eng, inner, innerClosed, emittedCalls, aborted, paused,
                 stopRequested, pauseWaiters, outer, histVars>>

NextApprove ==
  \/ SdkPlan \/ SdkResult \/ SdkFwdDone \/ SdkReturn \/ SdkCatchSaved \/ SdkRolledBack
  \/ \E a \in Attempts : Forward(a)
  \/ EngClientOk \/ EngClientFail \/ EngChatOk \/ EngProviderFail
  \/ \E part \in Parts, kind \in CallKinds : EngPart(part, kind)
  \/ \E kind \in CallKinds : EngStreamResumed(kind) \/ EngStreamEnd(kind) \/ EngToolNext(kind)
  \/ EngGuardResumed
  \/ \E d \in Decisions : EngDecide(d)
  \/ EngRequestApproval \/ EngApprovalDone
  \/ \E o \in Settlements, kind \in CallKinds : EngExecDone(o, kind)
  \/ \E viaRun \in BOOLEAN : Pause(viaRun) \/ Resume(viaRun) \/ Stop(viaRun) \/ Cancel(viaRun)
  \/ \E id \in 1..(emittedCalls + 1), allowed \in BOOLEAN : ApproveToolCall(id, allowed)

SpecApprove == InitCtl /\ [][NextApprove]_vars

\* The run has not been started.
RunIdle == RunInit /\ planLen = 0 /\ nameOk = TRUE /\ recording = FALSE

\* A cache on its own.
InitLru == RunIdle /\ LruInit /\ WsIdle /\ RtIdle /\ PfIdle /\ TnIdle /\ UnitIdle

NextLru ==
  \/ \E key \in Keys, value \in Vals : LruSet(key, value)
  \/ \E key \in Keys : LruGet(key) \/ LruHas(key) \/ LruDelete(key)
  \/ LruClear \/ LruSize \/ LruTick

SpecLru == InitLru /\ [][NextLru]_vars

\* A run in live mode whose tools write to the workspace.
InitLive ==
  /\ RunInit /\ recording = FALSE
  /\ LruIdle /\ wsMode = "live" /\ WsFresh /\ RtIdle /\ PfIdle /\ TnIdle /\ UnitIdle

\* The user answers approval requests and makes no other control call.
NextLive ==
  \/ SdkPlan \/ SdkResult \/ SdkFwdDone \/ SdkReturn \/ SdkCatchSaved \/ SdkRolledBack
  \/ \E a \in Attempts : Forward(a)
  \/ EngClientOk \/ EngClientFail \/ EngChatOk \/ EngProviderFail
  \/ \E part \in Parts, kind \in CallKinds : EngPart(part, kind)
  \/ \E kind \in CallKinds : EngStreamEnd(kind) \/ EngToolNext(kind)
  \/ \E d \in Decisions : EngDecide(d)
  \/ EngRequestApproval \/ EngApprovalDone
  \/ \E o \in Settlements, kind \in CallKinds : EngExecDone(o, kind)
  \/ \E id \in approvals, allowed \in BOOLEAN : ResolveApproval(id, allowed)
  \/ \E path \in Paths, contents \in Bytes : ToolWrite(path, contents)
  \/ \E path \in Paths : ToolDelete(path)
  \/ \E fromPath \in Paths, toPath \in Paths : ToolRename(fromPath, toPath)

SpecLive == InitLive /\ [][NextLive]_vars

\* A JournalWorkspace on its own.
InitJournal == RunIdle /\ LruIdle /\ wsMode = "live" /\ WsFresh /\ RtIdle /\ PfIdle /\ TnIdle /\ UnitIdle

NextJournal ==
  \/ \E path \in Paths, contents \in Bytes : JWrite(path, contents)
  \/ \E path \in Paths : JDelete(path)
  \/ \E fromPath \in Paths, toPath \in Paths : JRename(fromPath, toPath)
  \/ JRollback \/ JCommit

SpecJournal == InitJournal /\ [][NextJournal]_vars

\* A JournalWorkspace over a base that may fail a call during rollback().
NextJournalFaults ==
  \/ \E path \in Paths, contents \in Bytes : JWrite(path, contents)
  \/ \E path \in Paths : JDelete(path)
  \/ \E fromPath \in Paths, toPath \in Paths : JRename(fromPath, toPath)
  \/ JRollback \/ JCommit
  \/ \E k \in 1..MaxWsOps, call \in 1..3 : JRollbackFaulty(k, call)

SpecJournalFaults == InitJournal /\ [][NextJournalFaults]_vars

\* A PreviewWorkspace on its own.
InitPreview == RunIdle /\ LruIdle /\ wsMode = "preview" /\ WsFresh /\ RtIdle /\ PfIdle /\ TnIdle /\ UnitIdle

NextPreview ==
  \/ \E path \in Paths, contents \in Bytes : PWrite(path, contents)
  \/ \E path \in Paths : PDelete(path) \/ PRead(path) \/ PStat(path)
  \/ \E fromPath \in Paths, toPath \in Paths : PRename(fromPath, toPath)
  \/ PDiscard \/ PCommit

SpecPreview == InitPreview /\ [][NextPreview]_vars

\* A circuit breaker on its own, with the options it was constructed with.
InitBreaker ==
  /\ RunIdle /\ LruIdle /\ WsIdle /\ PfIdle /\ TnIdle /\ UnitIdle /\ CbEmpty
  /\ cbOpts \in [failureThreshold : 1..MaxThreshold, baseCooldownMs : 1..MaxBase,
                 maxCooldownMs : 1..MaxCool]
  /\ rtIn = [availability |-> <<>>, provider |-> NoModel, model |-> NoModel,
             allowFallback |-> TRUE]

NextBreaker ==
  \/ \E key \in Refs : RecordFailure(key) \/ RecordSuccess(key)
  \/ CbTick

SpecBreaker == InitBreaker /\ [][NextBreaker]_vars

\* The router planning with the breaker of a supervisor.
InitRoute ==
  /\ RunIdle /\ LruIdle /\ WsIdle /\ PfIdle /\ TnIdle /\ UnitIdle /\ CbEmpty
  /\ cbOpts = RouteOpts
  /\ rtIn \in RtInputs

NextRoute ==
  \/ \E key \in Refs : RecordFailure(key) \/ RecordSuccess(key)
  \/ CbTick
  \/ DoPlan

SpecRoute == InitRoute /\ [][NextRoute]_vars

\* The router planning for requests with hard constraints.
InitRouteHard ==
  /\ RunIdle /\ LruIdle /\ WsIdle /\ PfIdle /\ TnIdle /\ UnitIdle /\ CbEmpty
  /\ cbOpts = RouteOpts
  /\ rtIn \in RtHardInputs

NextRouteHard == DoPlan

SpecRouteHard == InitRouteHard /\ [][NextRouteHard]_vars

\* The same with the failure threshold the class defaults to
\* (circuit-breaker.ts 41).
InitRouteDefault ==
  /\ RunIdle /\ LruIdle /\ WsIdle /\ PfIdle /\ TnIdle /\ UnitIdle /\ CbEmpty
  /\ cbOpts = [RouteOpts EXCEPT !.failureThreshold = 2]
  /\ rtIn \in RtInputs

SpecRouteDefault == InitRouteDefault /\ [][NextRoute]_vars

\* fs_apply_patch called once on one file.
InitPatch ==
  /\ RunIdle /\ LruIdle /\ WsIdle /\ RtIdle /\ TnIdle /\ UnitIdle
  /\ pfFile \in SeqsUpTo(Texts, MaxOrig)
  /\ PfFresh

NextPatch ==
  \/ \E incremental \in BOOLEAN, total \in 1..MaxHunks : PatchStart(incremental, total)
  \/ \E h \in Hunks : PatchHunk(h)
  \/ PatchFinish

SpecPatch == InitPatch /\ [][NextPatch]_vars

\* The tool names of one run.
InitNames ==
  /\ RunIdle /\ LruIdle /\ WsIdle /\ RtIdle /\ PfIdle /\ UnitIdle
  /\ tnPolicy \in {"strict", "sanitize"}
  /\ tnTransform \in BOOLEAN
  /\ tnTools \in SeqsUpTo(ToolNames, MaxTools)
  /\ TnFresh

NextNames ==
  \/ ApplyToolNamePolicy
  \/ \E type \in EngineTypes, i \in 1..MaxTools : Remapped(type, i)
  \/ \E i \in 1..MaxTools : ApprovalRequested(i)

SpecNames == InitNames /\ [][NextNames]_vars

\* A RunController on its own, with the tasks that call it.
InitController ==
  /\ RunIdle /\ LruIdle /\ WsIdle /\ RtIdle /\ PfIdle /\ TnIdle /\ BqIdle /\ ExIdle /\ SvIdle /\ ApIdle
  /\ CtFresh

NextController ==
  \/ \E viaRun \in BOOLEAN : Pause(viaRun) \/ Resume(viaRun) \/ Stop(viaRun) \/ Cancel(viaRun)
  \/ \E id \in Ids, allowed \in BOOLEAN : ResolveApproval(id, allowed)
  \/ \E id \in Ids : RequestApproval(id)
  \/ \E c \in Callers : WaitIfPaused(c) \/ GuardToolExecution(c) \/ Woken(c) \/ CallAgain(c)

SpecController == InitController /\ [][NextController]_vars

\* An EventBus on its own.
InitBus ==
  /\ RunIdle /\ LruIdle /\ WsIdle /\ RtIdle /\ PfIdle /\ TnIdle /\ CtIdle /\ ExIdle /\ SvIdle /\ ApIdle
  /\ \E n \in 1..MaxConsumers : BqFresh(n)

NextBus ==
  \/ Emit \/ Close
  \/ \E h \in Hooks : Subscribe(h)
  \/ \E c \in 1..MaxConsumers : ConsumerNext(c) \/ ConsumerReturn(c)

SpecBus == InitBus /\ [][NextBus]_vars

\* One call of executeFromProvider.
InitExec ==
  /\ RunIdle /\ LruIdle /\ WsIdle /\ RtIdle /\ PfIdle /\ TnIdle /\ CtIdle /\ BqIdle /\ SvIdle /\ ApIdle
  /\ exIn \in ExInputs /\ exOut = NoOutcome

NextExec == Execute

SpecExec == InitExec /\ [][NextExec]_vars

\* The breaker of an SDK whose runs record outcomes and ask for saves.
InitSave ==
  /\ RunIdle /\ LruIdle /\ WsIdle /\ PfIdle /\ TnIdle /\ CtIdle /\ BqIdle /\ ExIdle /\ ApIdle
  /\ CbEmpty /\ cbOpts = RouteOpts
  /\ rtIn = [availability |-> <<>>, provider |-> NoModel, model |-> NoModel,
             allowFallback |-> TRUE]
  /\ SvFresh

\* The runs of this SDK all go to the first candidate of the catalog.
SaveRef == Ref(Catalog[1].provider, Catalog[1].id)

NextSave ==
  \/ RecordFailure(SaveRef) \/ RecordSuccess(SaveRef)
  \/ SaveRequest
  \/ \E k \in 1..MaxSaves : SaveStart(k)
  \/ \E k \in 1..MaxSaves, ok \in BOOLEAN : SaveSettle(k, ok)

SpecSave == InitSave /\ [][NextSave]_vars

\* ----------------------------------------------------------------- claims
Idx(t) == {k \in 1..Len(outer) : outer[k].type = t}
IsSettled == result.state # "pending"
\* The run got as far as starting an attempt or leaving the loop.
Ran == nameOk /\ planLen > 0

\* C1: exactly one run_start is delivered on the run's event stream, and it is
\* the first event delivered (stated for the runs that have candidates and on
\* which the user makes no control call).
C1_RunStartFirstOnce ==
  (Ran /\ userOps = 0)
    => /\ outer # <<>> => outer[1].type = "run_start"
       /\ Cardinality(Idx("run_start")) <= 1
       /\ IsSettled => Cardinality(Idx("run_start")) = 1

\* C2: when the result of a run settles, exactly one run_finish has been
\* delivered, and no event is delivered after a run_finish.
C2_RunFinishLastOnce ==
  /\ \A k \in Idx("run_finish") : k = Len(outer)
  /\ (IsSettled /\ Ran) => Cardinality(Idx("run_finish")) = 1

\* C3: once the result of a run has settled, resolved or rejected, the event
\* stream of the run is closed.
C3_StreamClosedWhenSettled == IsSettled => outerClosed

\* C4: tool-call ids are unique on the stream, and once the run has settled
\* every tool_call is followed by a tool_result of the same id, unless the run
\* ended with an error or a cancelled finish.
C4_ToolCallsPaired ==
  /\ \A j, k \in Idx("tool_call") : outer[j].id = outer[k].id => j = k
  /\ (IsSettled /\ result.state = "resolved" /\ result.reason \notin {"error", "cancelled"})
       => \A k \in Idx("tool_call") :
            \E j \in Idx("tool_result") : j > k /\ outer[j].id = outer[k].id

\* C5: a tool_approval_request is delivered before the tool_call of the same id,
\* and a tool_call before the tool_result of the same id.
C5_ApprovalCallResultOrder ==
  /\ \A k \in Idx("tool_approval_request"), j \in Idx("tool_call") :
       outer[j].id = outer[k].id => k < j
  /\ \A k \in Idx("tool_call"), j \in Idx("tool_result") :
       outer[j].id = outer[k].id => k < j

\* C6: a tool call the policy answered with ask is executed only once its
\* approval has resolved true; when the approval resolves false (denied by the
\* user, or by cancel) the call is never executed and fails with ToolDenied.
Denied(e) == e.pc = "done" /\ e.err = "ToolDenied" /\ e.res = "rejected"

C6_AskNeedsApproval ==
  [][/\ (eng.pc # "exec" /\ eng'.pc = "exec" /\ eng'.decision = "ask")
          => eng.pc = "approvalWait" /\ eng'.id = eng.id /\ <<eng.id, TRUE>> \in approvalRes
     /\ (eng.pc = "approvalWait" /\ <<eng.id, FALSE>> \in approvalRes /\ eng' # eng)
          => Denied(eng') /\ eng'.id = eng.id
     /\ (eng.pc = "askEmitted" /\ aborted /\ eng' # eng)
          => Denied(eng') /\ eng'.id = eng.id]_vars

\* The user denied a call, which has failed its attempt with ToolDenied.
C6_Witness == Denied(eng) /\ eng.decision = "ask" /\ ~aborted

\* C7: once cancel() has been called, no tool_call event is emitted.
C7_NoToolCallAfterCancel == [][aborted => emittedCalls' = emittedCalls]_vars

C9_NoToolStartWhilePaused ==
  [][(eng.pc # "exec" /\ eng'.pc = "exec") => ~paused]_vars

\* C10: after only set() calls on K + C pairwise distinct keys of a cache of
\* capacity C, with no entry expiring, exactly the first K keys are absent and
\* the last C keys are present.
Present(key) == key \in MapKeys(lruMap) /\ ~Expired(MapGet(lruMap, key), lruNow)

C10_LruKeepsNewest ==
  LET n == Len(lruWrites)
  IN (lruPure /\ n > lruMax /\ PruneExpired(lruMap, lruNow) = lruMap)
       => /\ \A j \in 1..(n - lruMax) : ~Present(lruWrites[j])
          /\ \A j \in (n - lruMax + 1)..n : Present(lruWrites[j])

\* Three distinct keys were set in a cache of capacity two.
C10_Witness ==
  /\ lruPure /\ lruMax = 2 /\ Len(lruWrites) = 3
  /\ PruneExpired(lruMap, lruNow) = lruMap
  /\ ~Present(lruWrites[1]) /\ Present(lruWrites[3])

\* C11: a get on a key whose entry is past its expiry returns undefined and
\* removes the entry, which no longer counts towards the size; from then on the
\* key is absent and a get of it misses, until the key is set again.
C11_StaleGetRemoves ==
  [][\A key \in Keys :
       /\ (LruGet(key) /\ Stale(lruMap, key, lruNow))
            => /\ lruRet' = Undefined
               /\ key \notin MapKeys(lruMap')
               /\ Len(lruMap') = Len(lruMap) - 1
       /\ key \in lruGone'
            => /\ key \notin MapKeys(lruMap')
               /\ LruGetRet(lruMap', key, lruNow') = Undefined]_vars

\* A get found an entry expired while another entry is still held.
C11_Witness == lruGone # {} /\ lruMap # <<>> /\ lruRet = Undefined

C13_PreviewKeepsBase ==
  [][(wsMode = "preview" /\ wsRet'.op \in {"write", "delete", "rename", "discard"})
       => \A path \in Paths : wsBase'[path] = wsBase[path]]_vars
C13_Witness ==
  /\ wsMode = "preview" /\ wsRet.op = "discard" /\ Len(wsLog) >= 2
  /\ \E k \in 1..Len(wsLog) : wsLog[k].kind = "write" /\ wsBase[wsLog[k].path] # wsLog[k].bytes
  /\ \E k \in 1..Len(wsLog) : wsLog[k].kind # "write" /\ wsBase[wsLog[k].path] # Absent
  /\ wsBase = wsBase0

\* C14: reads through a PreviewWorkspace reflect the overlay: readFile(p)
\* returns the bytes of the latest pending writeFile(p), fails when the latest
\* pending mutation of p is deletePath(p), and returns the base content when p
\* has no pending entry; stat(p) is non-null for a pending write and null for
\* a pending delete.
Muts(log, path) == {k \in 1..Len(log) : log[k].kind \in {"write", "delete"} /\ log[k].path = path}
LastMut(log, path) == CHOOSE k \in Muts(log, path) : \A j \in Muts(log, path) : j <= k
C14_ReadsReflectOverlay ==
  (wsMode = "preview" /\ wsRet.op \in {"read", "stat"}) =>
    LET path == wsRet.path
        none == Muts(wsLog, path) = {}
        last == wsLog[LastMut(wsLog, path)]
    IN /\ (wsRet.op = "read" /\ none) => wsRet.val = wsBase[path]
       /\ (wsRet.op = "read" /\ ~none /\ last.kind = "write") => wsRet.val = last.bytes
       /\ (wsRet.op = "read" /\ ~none /\ last.kind = "delete") => wsRet.val = Absent
       /\ (wsRet.op = "stat" /\ ~none /\ last.kind = "write") => wsRet.val = 1
       /\ (wsRet.op = "stat" /\ ~none /\ last.kind = "delete") => wsRet.val = 0
C14_Witness ==
  /\ wsMode = "preview" /\ wsRet.op = "read" /\ Len(wsLog) >= 2
  /\ wsLog[1].kind = "write" /\ wsLog[1].path = wsRet.path
  /\ wsLog[2].kind = "delete" /\ wsLog[2].path = wsRet.path
  /\ wsBase[wsRet.path] # Absent /\ wsRet.val = Absent

\* C16: for a CircuitBreaker with failureThreshold f >= 1, starting from an
\* empty entry: after fewer than f consecutive recordFailure calls the ref is
\* not open; the (f+k)-th consecutive failure at time t, k >= 0, makes it open
\* until t + min(max, base * 2^k), which for the f-th failure is
\* t + min(max, base); and a recordSuccess at any point makes the ref closed
\* with zero consecutive failures.
Times == 0..(MaxNow + MaxCool + 1)
OpenUntil(key, until) ==
  /\ cbByKey[key].openUntil = until
  /\ \A now \in Times : IsOpen(cbByKey, key, now) <=> now < until
Cooldown(k) == Min(cbOpts.maxCooldownMs, cbOpts.baseCooldownMs * Pow2(k))
C16_BreakerTransitions ==
  \A key \in Refs :
    LET n == cbStreak[key].n
        f == cbOpts.failureThreshold
    IN /\ n < f => \A now \in Times : ~IsOpen(cbByKey, key, now)
       /\ n >= f => OpenUntil(key, cbStreak[key].at + Cooldown(n - f))
       /\ (n = 0 /\ cbByKey[key].present)
            => /\ cbByKey[key].consecutiveFailures = 0
               /\ \A now \in Times : ~IsOpen(cbByKey, key, now)
C16_Witness ==
  \E key \in Refs, other \in Refs :
    /\ cbStreak[key].n > cbOpts.failureThreshold
    /\ cbOpts.baseCooldownMs * Pow2(cbStreak[key].n - cbOpts.failureThreshold)
         > cbOpts.maxCooldownMs
    /\ cbByKey[key].openUntil = cbStreak[key].at + cbOpts.maxCooldownMs
    /\ cbStreak[key].at > 0
    /\ cbStreak[other].n = 0 /\ cbByKey[other].present
\* C16 as stated: the f-th consecutive failure at time t makes the ref open
\* until t + base, whatever the maximum cooldown.
C16_AsStated ==
  \A key \in Refs :
    cbStreak[key].n = cbOpts.failureThreshold
      => OpenUntil(key, cbStreak[key].at + cbOpts.baseCooldownMs)

\* C15: two calls of plan(), with the supervisor's score function, that are
\* given the same catalog, availability, preferences, constraints and the same
\* circuit-breaker entries, and between which no ref's circuit passes from
\* open to closed, return the same ordered list of refs.
SameCircuits(t1, t2) ==
  \A key \in Refs : IsOpen(cbByKey, key, t1) <=> IsOpen(cbByKey, key, t2)
IsOld(hl) == hl.kind # "add"
MatchesAt(origLines, lines, idx) ==
  LET old == SelectSeq(lines, IsOld)
  IN \A j \in 1..Len(old) : idx + j <= Len(origLines) /\ origLines[idx + j] = old[j].text
Anchors(origLines, lines) ==
  LET ctx == SelectSeq(lines, IsContext)
  IN IF ctx = <<>> THEN {}
     ELSE {i \in 0..(Len(origLines) - 1) : origLines[i + 1] = ctx[1].text}
Least(S) == CHOOSE i \in S : \A j \in S : i <= j
C17_ApplyHunkAttempts ==
  pfLast.called =>
    LET lines == pfLast.hunk.lines
        idx == Max(0, pfLast.hunk.oldStart - 1)
        here == MatchesAt(pfLast.before, lines, idx)
        anchors == Anchors(pfLast.before, lines)
    IN /\ pfLast.tried[1] = idx
       /\ (pfLast.ok /\ Len(pfLast.tried) = 1) <=> here
       /\ (~here /\ anchors # {}) => pfLast.tried = <<idx, Least(anchors)>>
       /\ (~here /\ anchors = {}) => pfLast.tried = <<idx>>
       /\ (~here /\ anchors # {})
            => (pfLast.ok <=> MatchesAt(pfLast.before, lines, Least(anchors)))
       /\ ~pfLast.ok => (pfPc = "raised" /\ ~pfLast.wrote)

\* C18: SDK callers never see a provider-facing tool name that differs from
\* the tool's original name: every event delivered on the run's event stream
\* that carries a tool name (tool_call, tool_result, step_finish,
\* tool_approval_request) and the toolCalls/toolResults of the final result
\* carry the original, pre-sanitize name.
C18_CallersSeeOriginalNames ==
  tnLast.type # "none" => tnLast.toolName = tnTools[tnLast.tool]

\* C19: under the sanitize policy, for every input list of tools the
\* provider-facing names all match ^[A-Za-z0-9_-]{1,64}$ (64 scaled to
\* NameLimit) and are pairwise distinct; a tool keeps its sanitized name when
\* no earlier tool has it, and otherwise receives the first of the suffixes
\* _2, _3, ... that gives a name no earlier tool has ("foo bar", "foo_bar"
\* become "foo_bar", "foo_bar_2"); and remapToolNameToOriginal maps each
\* provider-facing name back to the original name of the tool it was assigned to.
EndsWith(name, i) ==
  /\ Len(name) >= 3 /\ Len(name) <= NameLimit
  /\ name[Len(name) - 1] = "_" /\ name[Len(name)] = Digit(i)
Earlier(k) == {tnNames[j] : j \in 1..(k - 1)}
C19_SanitizeNames ==
  (tnPolicy = "sanitize" /\ tnPc = "ready") =>
    /\ Len(tnNames) = Len(tnTools)
    /\ \A k \in 1..Len(tnNames) : IsValidToolName(tnNames[k])
    /\ \A j \in 1..Len(tnNames), k \in 1..Len(tnNames) : j # k => tnNames[j] # tnNames[k]
    /\ \A k \in 1..Len(tnNames) :
         LET base == SanitizeToolName(Transform(tnTransform, tnTools[k]))
         IN IF base \notin Earlier(k) THEN tnNames[k] = base
            ELSE \E i \in 2..(k + 1) :
                   /\ EndsWith(tnNames[k], i)
                   /\ SubSeq(tnNames[k], 1, Len(tnNames[k]) - 2)
                        = Slice(base, Len(tnNames[k]) - 2)
                   /\ \A j \in 2..(i - 1) : Suffixed(base, j) \in Earlier(k)
    /\ (tnTools = <<<<"a", "!", "a">>, <<"a", "_", "a">>>> /\ ~tnTransform)
         => tnNames = <<<<"a", "_", "a">>, <<"a", "_", "a", "_", "2">>>>
    /\ \A k \in 1..Len(tnNames) :
         RemapToolNameToOriginal(tnMap, tnNames[k]) = tnTools[k]
C19_Witness ==
  /\ tnPolicy = "sanitize" /\ tnPc = "ready" /\ Len(tnTools) = 3
  /\ \E k \in 1..3 : EndsWith(tnNames[k], 3)
  /\ \E k \in 1..3 : EndsWith(tnNames[k], 2) /\ tnTools[k] # tnTools[1]
  /\ tnNames[1] # tnTools[1]
  /\ tnLast.type = "tool_call" /\ tnLast.toolName # tnNames[tnLast.tool]

\* C20: under the strict policy, applyToolNamePolicy raises, so that the run
\* is refused before any provider is invoked, whenever some provider-facing
\* name is invalid or any two tools in the list have the same provider-facing
\* name, including two tools that share the same original name.
Proposed(k) == Transform(tnTransform, tnTools[k])
C20_StrictRefuses ==
  (tnPolicy = "strict" /\ tnPc # "init"
     /\ (\/ \E k \in 1..Len(tnTools) : ~IsValidToolName(Proposed(k))
         \/ \E j \in 1..Len(tnTools), k \in 1..Len(tnTools) :
              j # k /\ Proposed(j) = Proposed(k)))
    => tnPc = "refused"

C23_CancelSettlesAll ==
  [][/\ (~aborted /\ aborted')
          => /\ pauseWaiters' = <<>>
             /\ approvals' = {}
             /\ \A id \in approvals : <<id, FALSE>> \in approvalRes'
     /\ aborted' => approvals' = {}
     /\ aborted => \A f \in approvalRes' \ approvalRes : f[2] = FALSE]_vars

\* After a cancel: a guard and a waitIfPaused caller that were parked have been
\* released and not yet gone on, and both approvals have resolved false.
C23_Witness ==
  /\ aborted /\ pauseWaiters = <<>>
  /\ \E c, d \in Callers : ctCall[c] = "guardWait" /\ ctCall[d] = "waiting"
  /\ \A id \in Ids : <<id, FALSE>> \in approvalRes

\* C24: once cancel() has been called the token stays aborted whatever calls
\* follow, and every guardToolExecution that answers from then on, called
\* afresh or released from a pause, fails with ToolCancelled.
C24_CancelIsTerminal ==
  [][aborted
       => /\ aborted'
          /\ \A c \in Callers :
               (ctCall[c] \in {"idle", "guardWait"} /\ ctCall'[c] # ctCall[c])
                 => ctCall'[c] \in {"ToolCancelled", "waiting", "returned"}]_vars

\* After a cancel the user has paused and asked to stop, and a guard has failed
\* with ToolCancelled while another caller is parked by that pause.
C24_Witness ==
  /\ aborted /\ paused /\ stopRequested
  /\ \E c, d \in Callers : ctCall[c] = "ToolCancelled" /\ ctCall[d] = "waiting"

\* C25: an event passed to emit() after close() is delivered to no iterator
\* and to no subscribed hook.
AfterClose(ev) == bqClosed /\ ev > bqAtClose
C25_EmitAfterCloseDropped ==
  /\ \A c \in DOMAIN bqSeen : \A k \in 1..Len(bqSeen[c]) : ~AfterClose(bqSeen[c][k])
  /\ \A k \in 1..Len(bqHooked) : ~AfterClose(bqHooked[k][2])

\* C26: when two or more consumers iterate the same EventBus to its end, each
\* of them has observed every event emitted before the close, in emission
\* order.
EmittedBeforeClose == [k \in 1..(IF bqClosed THEN bqAtClose ELSE bqEmitted) |-> k]
C26_ConsumersSeeAll ==
  (Len(bqPc) >= 2 /\ \A c \in DOMAIN bqPc : bqPc[c] = "done")
    => \A c \in DOMAIN bqPc : bqSeen[c] = EmittedBeforeClose

\* C27: with a single consumer, the events its iterator has yielded followed
\* by the events buffered are the events emitted before close(), each once
\* and in emission order; its next() is pending only while nothing is
\* buffered and the bus is open, and answers done only once the bus is closed
\* and the buffer drained.
C27_SingleConsumerInOrder ==
  Len(bqPc) = 1
    => /\ bqSeen[1] \o bqBuf = EmittedBeforeClose
       /\ bqPc[1] = "waiting" => (bqBuf = <<>> /\ ~bqClosed)
       /\ bqPc[1] = "done" => (bqClosed /\ bqBuf = <<>>)

\* The single consumer was handed every event of a bus closed after MaxEmits
\* events, some of them still buffered at the close, and then the end.
C27_Witness ==
  /\ Len(bqPc) = 1 /\ bqPc[1] = "done"
  /\ bqAtClose = MaxEmits /\ Len(bqSeen[1]) = MaxEmits

\* C28: whatever tool.execute fails with, executeFromProvider raises nothing:
\* it returns a ToolResult with isError set, the id of the call and the
\* message of the failure as result.
ReachedExecute(in) ==
  in.known /\ ~in.aborted /\ (in.decision = "allow" \/ (in.decision = "ask" /\ in.allowed))
C28_ExecuteFailureContained ==
  (exOut # NoOutcome /\ ReachedExecute(exIn) /\ exIn.settles.kind # "returned")
    => /\ exOut.thrown = "none"
       /\ exOut.isError
       /\ exOut.id = exIn.id
       /\ exOut.result = MessageOf(exIn.settles)

\* C29: a tool call that the policy denies or the user refuses to approve does
\* not end the attempt: the engine's result is not rejected by it, so the
\* attempt does not fail and there is no failover.
C29_DenialKeepsAttempt ==
  [][((eng.pc = "decide" /\ eng' # eng /\ eng'.decision = "deny")
        \/ (eng.pc = "approvalWait" /\ eng' # eng /\ ~aborted
              /\ <<eng.id, FALSE>> \in approvalRes))
       => eng'.res # "rejected"]_vars

\* C30: the attempts are made in plan order: the engine of candidate i+1 is
\* started only once the attempt for candidate i has failed, hence none after
\* a success; and when the last candidate has failed and the run was not
\* cancelled, the result rejects with "All provider candidates failed" whose
\* cause is the failure of that last attempt, which is the only way it does.
AttemptFailed == eng.pc = "done" /\ eng.res \in {"rejected", "failed"}
Started(sv) == sv.st # "queued"
C31_SavesSerialised ==
  /\ Cardinality({k \in 1..Len(svSaves) : svSaves[k].st = "running"}) <= 1
  /\ \A k \in 2..Len(svSaves) : Started(svSaves[k]) => SaveSettled(svSaves[k - 1])
  /\ (svSaves # <<>> /\ \A k \in 1..Len(svSaves) : svSaves[k].st = "done")
       => svStore = svSaves[Len(svSaves)].snap

\* MaxSaves saves were requested with the breaker changing in between, and all
\* have completed.
C31_Witness ==
  /\ Len(svSaves) = MaxSaves
  /\ \A k \in 1..Len(svSaves) : svSaves[k].st = "done"
  /\ \A k \in 2..Len(svSaves) : svSaves[k].snap # svSaves[k - 1].snap
  /\ svStore = Snapshot(cbByKey)

\* C33: when the base fails while one journal entry is being restored,
\* rollback() still reverts every other entry, so that every path the failing
\* entry does not touch is back in its pre-attempt state, and empties the
\* journal.
FaultyEntry == wsLog[wsRet.path]
FaultPaths ==
  {FaultyEntry.path} \cup (IF FaultyEntry.kind = "rename" THEN {FaultyEntry.to} ELSE {})
C33_RollbackUnwindsPastErrors ==
  (wsMode = "live" /\ wsRet.op \in {"rollback", "rollbackRejected"} /\ wsRet.path # 0)
    => /\ wsOps = <<>>
       /\ \A path \in Touched(wsLog) \ FaultPaths : wsBase[path] = wsBase0[path]

\* C35: commit() of a PreviewWorkspace leaves the base as the buffered
\* writeFile, deletePath and renamePath calls would have left it had they been
\* made on the base directly, in the order they were issued.
RECURSIVE Direct(_, _)
Direct(b, log) ==
  IF log = <<>> THEN b
  ELSE LET c == Head(log)
       IN Direct(IF c.kind = "write" THEN BaseWrite(b, c.path, c.bytes)
                 ELSE IF c.kind = "delete" THEN BaseDelete(b, c.path)
                 ELSE BaseRename(b, c.path, c.to),
                 Tail(log))
C35_CommitAsDirect ==
  (wsMode = "preview" /\ wsRet.op \in {"commit", "commitFailed"})
    => wsBase = Direct(wsBase0, wsLog)

\* C36: once cancel() has been called, a call of waitIfPaused is never left
\* pending, whatever the user has called since the cancel.
C36_NoWaitAfterCancel ==
  [][aborted => \A c \in Callers :
                  (ctCall[c] = "idle" /\ ctCall'[c] # "idle") => ctCall'[c] # "waiting"]_vars

\* C37: every candidate of a plan, the catalog's last-resort candidates
\* included, belongs to a provider that is available, is in allowedProviders
\* when that list is given and holds a provider, and is not in
\* blockedProviders; no capability its profile names fails mustStream,
\* requiresTools or minContextTokens; and without allowFallback the plan has
\* at most one candidate.
IsAvailable(provider) ==
  \E k \in 1..Len(rtIn.availability) :
    rtIn.availability[k].provider = provider /\ rtIn.availability[k].available
Satisfies(ref) ==
  LET p == CatalogFind(rtIn.catalog, ref[1], ref[2])
  IN p # NoProfile
       => /\ rtIn.cs.mustStream => p.capabilities.streaming
          /\ rtIn.cs.requiresTools => p.capabilities.tools
          /\ p.capabilities.maxContextTokens # Undef
               => p.capabilities.maxContextTokens >= rtIn.cs.minContextTokens
PlanWithin(allowedGiven) ==
  /\ \A i \in 1..Len(rtPlan.refs) :
       LET provider == rtPlan.refs[i][1]
       IN /\ IsAvailable(provider)
          /\ allowedGiven => provider \in rtIn.cs.allowed
          /\ provider \notin rtIn.cs.blocked
          /\ Satisfies(rtPlan.refs[i])
  /\ ~rtIn.allowFallback => Len(rtPlan.refs) <= 1
C38_RequestedProviderFirst ==
  (rtPlan.done /\ rtIn.provider # NoModel /\ IsAvailable(rtIn.provider))
    => \A i, j \in 1..Len(rtPlan.refs) :
         (rtPlan.refs[i][1] = rtIn.provider /\ rtPlan.refs[j][1] # rtIn.provider) => i < j

\* C39: whatever recordFailure and recordSuccess calls were made on an empty
\* breaker with positive cooldowns, an entry whose openUntil is set has
\* openUntil after its lastFailureAt and at least failureThreshold
\* consecutive failures; an entry recordSuccess has just stored has no
\* failure and no openUntil.
C39_BreakerEntries ==
  \A key \in Refs :
    LET e == cbByKey[key]
    IN /\ (e.present /\ e.openUntil # Undef)
            => /\ e.lastFailureAt # Undef /\ e.openUntil > e.lastFailureAt
               /\ e.consecutiveFailures >= cbOpts.failureThreshold
       /\ (e.present /\ cbStreak[key].n = 0) => e = CbEntry(0, Undef, Undef)

\* One ref is open after failing beyond the threshold at a later time, while
\* the other holds the entry a success stored.
C39_Witness ==
  \E key \in Refs, other \in Refs :
    /\ cbOpts.failureThreshold = MaxThreshold
    /\ cbByKey[key].consecutiveFailures > MaxThreshold
    /\ cbByKey[key].lastFailureAt > 0 /\ cbByKey[key].openUntil > cbByKey[key].lastFailureAt
    /\ cbByKey[other] = CbEntry(0, Undef, Undef) /\ cbStreak[key].n > 0
\* The engine is within a model step: past the head of the step loop and not
\* yet finished.
InStep == eng.pc \notin {"idle", "client", "done"}

C34_CancelLeavesBreaker ==
  [][(aborted /\ eng.err = "ToolCancelled")
       => \A key \in Refs :
            /\ cbByKey'[key].consecutiveFailures <= cbByKey[key].consecutiveFailures
            /\ cbByKey'[key].openUntil \in {Undef, cbByKey[key].openUntil}]_vars

\* C32: an approval decision is never lost: once approveToolCall(id, allowed)
\* has been called for a request already handed to a hook or an iterator, the
\* approval of id is not pending (it was settled by that call or before it),
\* so that the executeFromProvider call on id cannot be left waiting for it.
C32_DecisionNotLost == \A c \in apCalls : c[1] \notin approvals

====
